---- MODULE Spec2Model ----
(***************************************************************************)
(* Model of OGRArrowLayer (ogr/ogrsf_frmts/arrow_common/ograrrowlayer.hpp): *)
(* the batch cursor (ResetReading, SetBatch, GetNextRawFeature, GetExtent,  *)
(* SetSpatialFilter, SetAttributeFilter, GetNextArrowArray), the attribute  *)
(* filter compiler and evaluator, and the Arrow schema export.              *)
(*                                                                          *)
(* Pointers are modelled as integers: 0 is nullptr, k > 0 is (a column of)  *)
(* the k-th record batch of the file.  Reals are counted in halves, so that *)
(* the literal 1.5 is the integer 3 and the integer column value 1 is 2     *)
(* once promoted to double.                                                 *)
(***************************************************************************)
EXTENDS Integers, Sequences, FiniteSets, TLC

\* ---------------------------------------------------------------- bounds
\* Largest number of rows of the file, and largest number of rows the batch
\* source puts in one record batch.
MaxRows == 2
MaxBatchLen == 2
MaxColumns == 3

\* ---------------------------------------------------------- OGREnvelope
\* Stand-ins for +infinity / -infinity of a default-constructed OGREnvelope.
PosInf == 99
NegInf == 0 - PosInf

Min(a, b) == IF a <= b THEN a ELSE b
Max(a, b) == IF a >= b THEN a ELSE b

\* OGREnvelope(): MinX = MinY = +inf, MaxX = MaxY = -inf.
OGREnvelope == [MinX |-> PosInf, MinY |-> PosInf, MaxX |-> NegInf, MaxY |-> NegInf]

Env(x0, y0, x1, y1) == [MinX |-> x0, MinY |-> y0, MaxX |-> x1, MaxY |-> y1]

\* OGREnvelope::IsInit()
IsInit(e) == e.MinX # PosInf

\* OGREnvelope::Merge(const OGREnvelope &)
Merge(e, o) ==
    [MinX |-> Min(e.MinX, o.MinX), MinY |-> Min(e.MinY, o.MinY),
     MaxX |-> Max(e.MaxX, o.MaxX), MaxY |-> Max(e.MaxY, o.MaxY)]

\* OGREnvelope::Merge(double dfX, double dfY)
MergePoint(e, p) == Merge(e, Env(p[1], p[2], p[1], p[2]))

\* OGREnvelope::Intersects(const OGREnvelope &)
Intersects(e, o) ==
    /\ e.MinX <= o.MaxX
    /\ e.MaxX >= o.MinX
    /\ e.MinY <= o.MaxY
    /\ e.MaxY >= o.MinY

\* ------------------------------------------------------------ geometries
\* A geometry value is a sequence of parts, a part a sequence of rings, a
\* ring a sequence of points <<x, y>> (the nesting of a GeoArrow
\* multipolygon; simpler geometries use one part and one ring).
RECURSIVE MergePoints(_, _)
MergePoints(e, pts) ==
    IF pts = <<>> THEN e ELSE MergePoints(MergePoint(e, Head(pts)), Tail(pts))

RECURSIVE MergeRings(_, _)
MergeRings(e, rings) ==
    IF rings = <<>> THEN e
    ELSE MergeRings(MergePoints(e, Head(rings)), Tail(rings))

\* OGRGeometry::getEnvelope of a decoded geometry: every ring of every part.
RECURSIVE getEnvelopeFrom(_, _)
getEnvelopeFrom(e, parts) ==
    IF parts = <<>> THEN e
    ELSE getEnvelopeFrom(MergeRings(e, Head(parts)), Tail(parts))

getEnvelope(g) == getEnvelopeFrom(OGREnvelope, g)

\* OGRGeometry::IsEmpty: no part holds a point.
IsEmpty(g) ==
    \A j \in 1..Len(g) : \A k \in 1..Len(g[j]) : g[j][k] = <<>>

\* MergeFirstRings stopping after the first part (j < 1 for j < nParts).
MergeFirstRings_FirstPartOnly(e, parts) ==
    IF parts = <<>> THEN e
    ELSE IF Len(parts[1]) >= 1 THEN MergePoints(e, parts[1][1]) ELSE e

\* The loop over the parts in the multipolygon fast paths: for each part
\* with nRings >= 1, merge the points of the first ring only.
RECURSIVE MergeFirstRings(_, _)
MergeFirstRings(e, parts) ==
    IF parts = <<>> THEN e
    ELSE LET part == Head(parts)
             e1 == IF Len(part) >= 1 THEN MergePoints(e, part[1]) ELSE e
         IN MergeFirstRings(e1, Tail(parts))

\* The geometry values the files of the model hold.
GIn == << << << <<0, 0>>, <<1, 1>> >> >> >>
GOut == << << << <<3, 3>> >> >> >>
GXOnly == << << << <<0, 3>> >> >> >>
GHole == << << << <<3, 3>> >>, << <<1, 1>> >> >> >>
GTwo == << << << <<3, 3>> >> >>, << << <<1, 0>> >> >> >>
GNoParts == << >>

\* --------------------------------------------------------------- strings
\* A string is a sequence of character codes.
RECURSIVE StrCmpFrom(_, _, _)
StrCmpFrom(a, b, i) ==
    IF i > Len(a) \/ i > Len(b)
    THEN (IF Len(a) < Len(b) THEN 0 - 1 ELSE IF Len(a) > Len(b) THEN 1 ELSE 0)
    ELSE IF a[i] < b[i] THEN 0 - 1
    ELSE IF a[i] > b[i] THEN 1
    ELSE StrCmpFrom(a, b, i + 1)

\* std::string::compare: the characters of the common prefix, then the lengths.
StrCompare(a, b) == StrCmpFrom(a, b, 1)

\* std::to_string(int / long long), decimal digits.
RECURSIVE Digits(_)
Digits(n) == IF n < 10 THEN <<48 + n>> ELSE Digits(n \div 10) \o <<48 + (n % 10)>>

IntToString(v) == IF v < 0 THEN <<45>> \o Digits(0 - v) ELSE Digits(v)

\* std::to_string(double), "%f": six decimals.  h counts halves.
DoubleToString(h) ==
    LET a == IF h < 0 THEN 0 - h ELSE h
        frac == IF a % 2 = 1 THEN <<46, 53, 48, 48, 48, 48, 48>>
                ELSE <<46, 48, 48, 48, 48, 48, 48>>
    IN (IF h < 0 THEN <<45>> ELSE <<>>) \o Digits(a \div 2) \o frac

\* static_cast<int>(double) / static_cast<GIntBig>(double): truncation
\* towards zero of a value counted in halves.
TruncToInt(h) == IF h >= 0 THEN h \div 2 ELSE 0 - ((0 - h) \div 2)

\* -------------------------------------------------- attribute constraints
\* "this" is the layer object, a record of its members.  this.layout holds
\* what the layer was opened with: FieldDefn, the field types of
\* m_poFeatureDefn by field index (0-based index i is FieldDefn[i + 1]), the
\* maps from field index to Arrow column, the FID and bbox columns.
GetFieldCount(this) == Len(this.layout.FieldDefn)

\* Offset of the FID pseudo-field after the regular fields.
SPF_FID == 0

\* struct Constraint as default-constructed.
NoConstraint ==
    [iField |-> 0 - 1, iArrayIdx |-> 0 - 1, nOperation |-> "SWQ_EQ",
     eType |-> "Integer", Integer |-> 0, Integer64 |-> 0, Real |-> 0,
     osValue |-> <<>>]

GetColumnSubNode(poNode) ==
    IF poNode.eNodeType = "SNT_OPERATION" /\ Len(poNode.papoSubExpr) = 2
    THEN IF poNode.papoSubExpr[1].eNodeType = "SNT_COLUMN" THEN 1
         ELSE IF poNode.papoSubExpr[2].eNodeType = "SNT_COLUMN" THEN 2
         ELSE 0
    ELSE 0

GetConstantSubNode(poNode) ==
    IF poNode.eNodeType = "SNT_OPERATION" /\ Len(poNode.papoSubExpr) = 2
    THEN IF poNode.papoSubExpr[2].eNodeType = "SNT_CONSTANT" THEN 2
         ELSE IF poNode.papoSubExpr[1].eNodeType = "SNT_CONSTANT" THEN 1
         ELSE 0
    ELSE 0

IsComparisonOp(op) ==
    op \in {"SWQ_EQ", "SWQ_NE", "SWQ_LT", "SWQ_LE", "SWQ_GT", "SWQ_GE"}

\* Result: [ok, c], c the constraint with its typed literal filled in.
\* osValue is read only for a String constraint.
FillTargetValueFromSrcExpr(fieldType, psConstraint, poSrcValue) ==
    CASE fieldType = "OFTInteger" ->
           [ok |-> TRUE,
            c |-> [psConstraint EXCEPT
                     !.eType = "Integer",
                     !.Integer = IF poSrcValue.field_type = "SWQ_FLOAT"
                                 THEN TruncToInt(poSrcValue.float_value)
                                 ELSE poSrcValue.int_value,
                     !.osValue = IntToString(
                                 IF poSrcValue.field_type = "SWQ_FLOAT"
                                 THEN TruncToInt(poSrcValue.float_value)
                                 ELSE poSrcValue.int_value)]]
      [] fieldType = "OFTInteger64" ->
           [ok |-> TRUE,
            c |-> [psConstraint EXCEPT
                     !.eType = "Integer64",
                     !.Integer64 = IF poSrcValue.field_type = "SWQ_FLOAT"
                                   THEN TruncToInt(poSrcValue.float_value)
                                   ELSE poSrcValue.int_value,
                     !.osValue = IntToString(
                                 IF poSrcValue.field_type = "SWQ_FLOAT"
                                 THEN TruncToInt(poSrcValue.float_value)
                                 ELSE poSrcValue.int_value)]]
      [] fieldType = "OFTReal" ->
           [ok |-> TRUE,
            c |-> [psConstraint EXCEPT
                     !.eType = "Real",
                     !.Real = poSrcValue.float_value,
                     !.osValue = DoubleToString(poSrcValue.float_value)]]
      [] fieldType = "OFTString" ->
           [ok |-> TRUE,
            c |-> [psConstraint EXCEPT
                     !.eType = "String",
                     !.osValue = poSrcValue.string_value]]
      [] OTHER -> [ok |-> FALSE, c |-> psConstraint]

\* The operator of "constant op column" turned into "column op' constant".
ReverseOperation(op) ==
    CASE op = "SWQ_LE" -> "SWQ_GE"
      [] op = "SWQ_LT" -> "SWQ_GT"
      [] op = "SWQ_GE" -> "SWQ_LE"
      [] op = "SWQ_GT" -> "SWQ_LT"
      [] OTHER -> op

\* A node ExploreExprNode descends through if OR nodes were taken for
\* conjunctions as well.
IsConjunction_OrAlso(poNode) ==
    poNode.eNodeType = "SNT_OPERATION"
    /\ poNode.nOperation \in {"SWQ_AND", "SWQ_OR"}
    /\ Len(poNode.papoSubExpr) = 2

\* The test of the first branch of ExploreExprNode: a binary AND.
IsConjunction(poNode) ==
    poNode.eNodeType = "SNT_OPERATION" /\ poNode.nOperation = "SWQ_AND"
    /\ Len(poNode.papoSubExpr) = 2

\* The constraints ExploreExprNode appends, in order, for the tree poNode.
RECURSIVE ExploreExprNode(_, _)
ExploreExprNode(this, poNode) ==
    IF IsConjunction(poNode)
    THEN ExploreExprNode(this, poNode.papoSubExpr[1])
             \o ExploreExprNode(this, poNode.papoSubExpr[2])
    ELSE IF poNode.eNodeType = "SNT_OPERATION"
            /\ IsComparisonOp(poNode.nOperation)
            /\ Len(poNode.papoSubExpr) = 2
    THEN LET iColumn == GetColumnSubNode(poNode)
             iValue == GetConstantSubNode(poNode)
         IN IF iColumn # 0 /\ iValue # 0
               /\ (poNode.papoSubExpr[iColumn].field_index < GetFieldCount(this)
                   \/ poNode.papoSubExpr[iColumn].field_index
                          = GetFieldCount(this) + SPF_FID)
            THEN LET poColumn == poNode.papoSubExpr[iColumn]
                     fieldType ==
                         IF poColumn.field_index = GetFieldCount(this) + SPF_FID
                         THEN "OFTInteger64"
                         ELSE this.layout.FieldDefn[poColumn.field_index + 1]
                     constraint ==
                         [NoConstraint EXCEPT
                            !.iField = poColumn.field_index,
                            !.nOperation = poNode.nOperation]
                     filled == FillTargetValueFromSrcExpr(
                                   fieldType, constraint,
                                   poNode.papoSubExpr[iValue])
                 IN IF filled.ok
                    THEN IF iColumn = 1
                         THEN <<filled.c>>
                         ELSE <<[filled.c EXCEPT
                                   !.nOperation =
                                       ReverseOperation(poNode.nOperation)]>>
                    ELSE <<>>
            ELSE <<>>
    ELSE IF poNode.eNodeType = "SNT_OPERATION"
            /\ poNode.nOperation = "SWQ_ISNULL"
            /\ Len(poNode.papoSubExpr) = 1
    THEN LET poColumn == poNode.papoSubExpr[1]
         IN IF poColumn.eNodeType = "SNT_COLUMN"
               /\ poColumn.field_index < GetFieldCount(this)
            THEN <<[NoConstraint EXCEPT
                      !.iField = poColumn.field_index,
                      !.nOperation = "SWQ_ISNULL"]>>
            ELSE <<>>
    ELSE IF poNode.eNodeType = "SNT_OPERATION"
            /\ poNode.nOperation = "SWQ_NOT"
            /\ Len(poNode.papoSubExpr) = 1
            /\ poNode.papoSubExpr[1].eNodeType = "SNT_OPERATION"
            /\ poNode.papoSubExpr[1].nOperation = "SWQ_ISNULL"
            /\ Len(poNode.papoSubExpr[1].papoSubExpr) = 1
    THEN LET poColumn == poNode.papoSubExpr[1].papoSubExpr[1]
         IN IF poColumn.eNodeType = "SNT_COLUMN"
               /\ poColumn.field_index < GetFieldCount(this)
            THEN <<[NoConstraint EXCEPT
                      !.iField = poColumn.field_index,
                      !.nOperation = "SWQ_ISNOTNULL"]>>
            ELSE <<>>
    ELSE <<>>

\* The loop of ComputeConstraintsArrayIdx from constraint i on; the
\* "return" of the FID branch leaves the remaining constraints untouched.
RECURSIVE ComputeConstraintsArrayIdxFrom(_, _, _)
ComputeConstraintsArrayIdxFrom(this, cons, i) ==
    IF i > Len(cons) THEN cons
    ELSE LET constraint == cons[i]
             isFID == constraint.iField = GetFieldCount(this) + SPF_FID
         IN IF this.layout.m_bIgnoredFields
            THEN LET idx == IF isFID
                            THEN this.layout.m_nRequestedFIDColumn
                            ELSE this.layout.m_anMapFieldIndexToArrayIndex[
                                     constraint.iField + 1]
                     cons1 == [cons EXCEPT ![i].iArrayIdx = idx]
                 IN IF isFID /\ idx < 0 /\ this.layout.m_osFIDColumn = <<>>
                    THEN cons1
                    ELSE ComputeConstraintsArrayIdxFrom(this, cons1, i + 1)
            ELSE LET idx == IF isFID
                            THEN this.layout.m_iFIDArrowColumn
                            ELSE this.layout.m_anMapFieldIndexToArrowColumn[
                                     constraint.iField + 1][1]
                 IN ComputeConstraintsArrayIdxFrom(
                        this, [cons EXCEPT ![i].iArrayIdx = idx], i + 1)

ComputeConstraintsArrayIdx(this) ==
    [this EXCEPT !.m_asAttributeFilterConstraints =
        ComputeConstraintsArrayIdxFrom(this, @, 1)]

\* ----------------------------------------------------- ConstraintEvaluator
CompareGeneric(op, val1, val2) ==
    CASE op = "SWQ_LE" -> val1 <= val2
      [] op = "SWQ_LT" -> val1 < val2
      [] op = "SWQ_NE" -> val1 # val2
      [] op = "SWQ_EQ" -> val1 = val2
      [] op = "SWQ_GE" -> val1 >= val2
      [] op = "SWQ_GT" -> val1 > val2
      [] OTHER -> TRUE

\* CompareGeneric<std::string, std::string>: the relational operators of
\* std::string.
CompareGenericStr(op, val1, val2) == CompareGeneric(op, StrCompare(val1, val2), 0)

\* A value of C++ type T ("int", "GIntBig", "double") as a double (halves).
AsDouble(T, value) == IF T = "double" THEN value ELSE 2 * value

\* Compare<T, U>::get for U an integer type: the usual arithmetic
\* conversions promote both sides to double when T is double.
CompareWithInt(T, op, val1, val2) ==
    IF T = "double" THEN CompareGeneric(op, val1, 2 * val2)
    ELSE CompareGeneric(op, val1, val2)

\* template <class T> ConstraintEvaluator(constraint, value)
ConstraintEvaluator(constraint, T, value) ==
    CASE constraint.eType = "Integer" ->
           CompareWithInt(T, constraint.nOperation, value, constraint.Integer)
      [] constraint.eType = "Integer64" ->
           CompareWithInt(T, constraint.nOperation, value, constraint.Integer64)
      [] constraint.eType = "Real" ->
           CompareGeneric(constraint.nOperation, AsDouble(T, value),
                          constraint.Real)
      [] constraint.eType = "String" ->
           CompareGenericStr(constraint.nOperation,
                             IF T = "double" THEN DoubleToString(value)
                             ELSE IntToString(value),
                             constraint.osValue)
      [] OTHER -> FALSE

\* CompareStr testing equality whatever the operator.
CompareStr_EqualityOnly(op, val1, val2) ==
    Len(val1) = Len(val2) /\ val1 = val2

\* CompareStr(op, StringView val1, std::string val2)
CompareStr(op, val1, val2) ==
    IF op = "SWQ_EQ" THEN Len(val1) = Len(val2) /\ val1 = val2
    ELSE LET cmpRes == StrCompare(val2, val1)
         IN CASE op = "SWQ_LE" -> cmpRes >= 0
              [] op = "SWQ_LT" -> cmpRes > 0
              [] op = "SWQ_NE" -> cmpRes # 0
              [] op = "SWQ_GE" -> cmpRes <= 0
              [] op = "SWQ_GT" -> cmpRes < 0
              [] OTHER -> TRUE

\* ConstraintEvaluator(constraint, const StringView &)
ConstraintEvaluatorStr(constraint, value) ==
    CompareStr(constraint.nOperation, value, constraint.osValue)

\* ------------------------------------------------------------- the file
\* file: the rows of the dataset, in order.  batchLen: the number of rows
\* the batch source puts in a record batch (the last one may be shorter).
\* this: the OGRArrowLayer object.  ret: what the last call returned.
VARIABLES file, batchLen, this, ret, heap, out

vars == <<file, batchLen, this, ret, heap, out>>

NumBatches == (Len(file) + batchLen - 1) \div batchLen

\* RecordBatch::num_rows() of the b-th batch (b >= 1).
num_rows(b) == Min(batchLen, Len(file) - (b - 1) * batchLen)

\* Number of rows of the batches before the b-th one.
RowsBefore(b) == (b - 1) * batchLen

\* Row i (0-based) of the b-th batch: [cols |-> the cells of the top-level
\* Arrow columns].  A cell is [isnull, v]; the v of a struct cell is the
\* sequence of its children's cells, the v of a geometry cell is
\* [st |-> "ok" | "bad", g |-> geometry value].
RowAt(b, i) == file[RowsBefore(b) + i + 1]

\* The cell reached in row i of batch b by following a column path.
RECURSIVE CellAtPath(_, _)
CellAtPath(cell, path) ==
    IF path = <<>> THEN cell ELSE CellAtPath(cell.v[Head(path) + 1], Tail(path))

\* The top-level Arrow column behind index iArrayIdx of m_poBatchColumns:
\* a batch read with ignored fields holds the requested columns only.
ArrowColumnOfArray(this_, iArrayIdx) ==
    IF this_.layout.m_bIgnoredFields
    THEN this_.layout.m_anRequestedColumns[iArrayIdx + 1]
    ELSE iArrayIdx

\* m_poBatchColumns[iArrayIdx] of batch b, at row i.
ColumnCell(this_, b, iArrayIdx, i) ==
    RowAt(b, i).cols[ArrowColumnOfArray(this_, iArrayIdx) + 1]

\* array->type_id() of m_poBatchColumns[iArrayIdx].
ColumnType(this_, iArrayIdx) ==
    this_.layout.m_poSchema[ArrowColumnOfArray(this_, iArrayIdx) + 1]

\* The double array GetArray returned for field iField, at row i of batch b.
FieldCell(this_, iField, b, i) ==
    IF this_.layout.m_bIgnoredFields
    THEN ColumnCell(this_, b,
                    this_.layout.m_anMapFieldIndexToArrayIndex[iField + 1], i)
    ELSE LET path == this_.layout.m_anMapFieldIndexToArrowColumn[iField + 1]
         IN CellAtPath(ColumnCell(this_, b, path[1], i), Tail(path))

\* The column of the geometry field iGeomField in m_poBatchColumns, as
\* every caller computes it.
GeomColumn(this_, iGeomField) ==
    IF this_.layout.m_bIgnoredFields
    THEN this_.layout.m_anMapGeomFieldIndexToArrayIndex[iGeomField + 1]
    ELSE this_.layout.m_anMapGeomFieldIndexToArrowColumn[iGeomField + 1]

\* ------------------------------------------------------------- SetBatch
\* The GetArray lambda of SetBatch: 0 (nullptr) or poBatch, the batch whose
\* double array it returns.
GetArray(this_, idx, poBatch) ==
    IF this_.layout.m_bIgnoredFields
    THEN IF this_.layout.m_anMapFieldIndexToArrayIndex[idx + 1] < 0
         THEN 0 ELSE poBatch
    ELSE poBatch

\* The poStructArray out-parameter of GetArray: 0 (nullptr), or 1 + the
\* top-level column holding the struct the field is a member of.
GetArrayStruct(this_, idx) ==
    IF this_.layout.m_bIgnoredFields THEN 0
    ELSE LET iCol == this_.layout.m_anMapFieldIndexToArrowColumn[idx + 1][1]
         IN IF ColumnType(this_, iCol) = "STRUCT" THEN iCol + 1 ELSE 0

SetBatch(this_, poBatch) ==
    LET t0 == [this_ EXCEPT
                 !.m_poBatch = poBatch,
                 !.m_poBatchColumns = poBatch,
                 !.m_poArrayWKB = 0,
                 !.m_poArrayWKBLarge = 0,
                 !.m_poArrayBBOX = 0,
                 !.m_poArrayMinX = 0,
                 !.m_poArrayMinY = 0,
                 !.m_poArrayMaxX = 0,
                 !.m_poArrayMaxY = 0]
        lay == this_.layout
        iCol == GeomColumn(this_, this_.m_iGeomFieldFilter)
    IN IF poBatch # 0 /\ this_.m_poFilterGeom # 0
          /\ iCol >= 0
          /\ lay.m_aeGeomEncoding[this_.m_iGeomFieldFilter + 1] = "WKB"
       THEN LET t1 == IF ColumnType(this_, iCol) = "BINARY"
                      THEN [t0 EXCEPT !.m_poArrayWKB = poBatch]
                      ELSE [t0 EXCEPT !.m_poArrayWKBLarge = poBatch]
            IN IF lay.m_iBBOXMinXField >= 0 /\ lay.m_iBBOXMinYField >= 0
                  /\ lay.m_iBBOXMaxXField >= 0 /\ lay.m_iBBOXMaxYField >= 0
                  /\ lay.USE_BBOX
               THEN LET minX == GetArray(this_, lay.m_iBBOXMinXField, poBatch)
                        minY == GetArray(this_, lay.m_iBBOXMinYField, poBatch)
                        maxX == GetArray(this_, lay.m_iBBOXMaxXField, poBatch)
                        maxY == GetArray(this_, lay.m_iBBOXMaxYField, poBatch)
                        sMinX == GetArrayStruct(this_, lay.m_iBBOXMinXField)
                        sMinY == GetArrayStruct(this_, lay.m_iBBOXMinYField)
                        sMaxX == GetArrayStruct(this_, lay.m_iBBOXMaxXField)
                        sMaxY == GetArrayStruct(this_, lay.m_iBBOXMaxYField)
                        bbox == IF sMinX # sMinY \/ sMinX # sMaxX
                                   \/ sMinX # sMaxY \/ sMinX = 0
                                THEN 0 ELSE poBatch
                    IN IF minX = 0 \/ minY = 0 \/ maxX = 0 \/ maxY = 0
                       THEN t1
                       ELSE [t1 EXCEPT
                               !.m_poArrayBBOX = bbox,
                               !.m_poArrayMinX = minX,
                               !.m_poArrayMinY = minY,
                               !.m_poArrayMaxX = maxX,
                               !.m_poArrayMaxY = maxY]
               ELSE t1
       ELSE t0

\* ResetReading leaving the row index where it is when the first batch is
\* kept.
ResetReading_KeepsRowIndex(this_) ==
    LET t0 == [this_ EXCEPT
                 !.m_bEOF = FALSE,
                 !.m_nFeatureIdx = 0]
    IN IF this_.m_iRecordBatch # 0
       THEN [t0 EXCEPT
               !.m_nIdxInBatch = 0,
               !.m_iRecordBatch = 0 - 1,
               !.m_poBatch = 0,
               !.m_poBatchColumns = 0]
       ELSE t0

\* ResetReading leaving the EOF flag as it is.
ResetReading_KeepsEOF(this_) ==
    LET t0 == [this_ EXCEPT
                 !.m_nFeatureIdx = 0,
                 !.m_nIdxInBatch = 0]
    IN IF this_.m_iRecordBatch # 0
       THEN [t0 EXCEPT
               !.m_iRecordBatch = 0 - 1,
               !.m_poBatch = 0,
               !.m_poBatchColumns = 0]
       ELSE t0

\* --------------------------------------------------------- ResetReading
ResetReading(this_) ==
    LET t0 == [this_ EXCEPT
                 !.m_bEOF = FALSE,
                 !.m_nFeatureIdx = 0,
                 !.m_nIdxInBatch = 0]
    IN IF this_.m_iRecordBatch # 0
       THEN [t0 EXCEPT
               !.m_iRecordBatch = 0 - 1,
               !.m_poBatch = 0,
               !.m_poBatchColumns = 0]
       ELSE t0

\* -------------------------------------------------------- batch source
\* ReadNextBatch() of the concrete layer: [ok, this].  It advances
\* m_iRecordBatch; when the file has a batch at that index it hands it to
\* SetBatch and restarts m_nIdxInBatch.  aux_pulls counts the pulls of the
\* running call; aux_pullOK records that each happened with no current
\* batch or with the row index at the current batch's row count;
\* aux_noMore that a pull found no further batch.
ReadNextBatch(this_) ==
    LET n == this_.m_iRecordBatch + 1
        t0 == [this_ EXCEPT
                 !.aux_pulls = @ + 1,
                 !.aux_pullOK =
                     @ /\ (this_.m_poBatch = 0
                           \/ this_.m_nIdxInBatch = num_rows(this_.m_poBatch))]
    IN IF n >= NumBatches
       THEN [ok |-> FALSE,
             this |-> [t0 EXCEPT !.m_iRecordBatch = NumBatches,
                                 !.aux_noMore = TRUE]]
       ELSE [ok |-> TRUE,
             this |-> [SetBatch(t0, n + 1) EXCEPT
                         !.m_iRecordBatch = n,
                         !.m_nIdxInBatch = 0]]

\* m_bEOF = !ReadNextBatch();
PullOrEOF(this_) ==
    LET r == ReadNextBatch(this_) IN [r.this EXCEPT !.m_bEOF = ~r.ok]

\* InvalidateCachedBatches() of the concrete layer: forget the position in
\* the file and rewind.
InvalidateCachedBatches(this_) ==
    ResetReading([this_ EXCEPT !.m_iRecordBatch = 0 - 1])

\* ------------------------------- SkipToNextFeatureDueToAttributeFilter
\* The C++ type the switch on array->type_id() casts the value to before
\* ConstraintEvaluator; "none" for NA and for the default branch.
ValueClass(typeId) ==
    CASE typeId \in {"BOOL", "UINT8", "INT8", "UINT16", "INT16", "INT32"} -> "int"
      [] typeId \in {"UINT32", "INT64"} -> "GIntBig"
      [] typeId \in {"UINT64", "HALF_FLOAT", "FLOAT", "DOUBLE",
                     "DECIMAL128", "DECIMAL256"} -> "double"
      [] typeId = "STRING" -> "StringView"
      [] OTHER -> "none"

\* The null tests with a null cell let through by the comparison
\* operators.
NullTest_NullPasses(nOperation, bIsNull) ==
    IF nOperation = "SWQ_ISNULL"
    THEN (IF bIsNull THEN "continue" ELSE "return true")
    ELSE IF nOperation = "SWQ_ISNOTNULL"
    THEN (IF ~bIsNull THEN "continue" ELSE "return true")
    ELSE IF bIsNull THEN "continue"
    ELSE "switch"

\* The tests on bIsNull that precede the switch on the array's type: what
\* the loop body does next.
NullTest(nOperation, bIsNull) ==
    IF nOperation = "SWQ_ISNULL"
    THEN (IF bIsNull THEN "continue" ELSE "return true")
    ELSE IF nOperation = "SWQ_ISNOTNULL"
    THEN (IF ~bIsNull THEN "continue" ELSE "return true")
    ELSE IF bIsNull THEN "return true"
    ELSE "switch"

\* TRUE when the row at m_nIdxInBatch must be skipped, looking at the
\* constraints from the k-th on.
RECURSIVE SkipDueToConstraintsFrom(_, _)
SkipDueToConstraintsFrom(this_, k) ==
    IF k > Len(this_.m_asAttributeFilterConstraints) THEN FALSE
    ELSE LET constraint == this_.m_asAttributeFilterConstraints[k]
         IN IF constraint.iArrayIdx < 0
            THEN IF constraint.iField = GetFieldCount(this_) + SPF_FID
                    /\ this_.layout.m_osFIDColumn = <<>>
                 THEN IF ~ConstraintEvaluator(constraint, "GIntBig",
                                              this_.m_nFeatureIdx)
                      THEN TRUE
                      ELSE SkipDueToConstraintsFrom(this_, k + 1)
                 ELSE SkipDueToConstraintsFrom(this_, k + 1)
            ELSE LET cell == ColumnCell(this_, this_.m_poBatchColumns,
                                        constraint.iArrayIdx,
                                        this_.m_nIdxInBatch)
                     bIsNull == cell.isnull
                     T == ValueClass(ColumnType(this_, constraint.iArrayIdx))
                     onNull == NullTest(constraint.nOperation, bIsNull)
                 IN IF onNull = "continue"
                    THEN SkipDueToConstraintsFrom(this_, k + 1)
                    ELSE IF onNull = "return true" THEN TRUE
                    ELSE IF T = "none"
                    THEN SkipDueToConstraintsFrom(this_, k + 1)
                    ELSE IF T = "StringView"
                    THEN IF ~ConstraintEvaluatorStr(constraint, cell.v)
                         THEN TRUE
                         ELSE SkipDueToConstraintsFrom(this_, k + 1)
                    ELSE IF ~ConstraintEvaluator(constraint, T, cell.v)
                         THEN TRUE
                         ELSE SkipDueToConstraintsFrom(this_, k + 1)

SkipToNextFeatureDueToAttributeFilter(this_) ==
    SkipDueToConstraintsFrom(this_, 1)

\* --------------------------------------------------- geometry of a cell
\* OGRWKBGetBoundingBox(data, size, sEnvelope): [ok, env].  It fails on
\* bytes that are no well-known binary; on well-formed bytes it yields the
\* envelope of the geometry they encode.
OGRWKBGetBoundingBox(cell) ==
    IF cell.v.st = "ok" THEN [ok |-> TRUE, env |-> getEnvelope(cell.v.g)]
    ELSE [ok |-> FALSE, env |-> OGREnvelope]

\* ReadGeometry(iGeomField, array, nIdxInBatch): [null, g].  A null cell
\* gives nullptr; WKB or WKT that does not parse gives nullptr; a GeoArrow
\* cell is rebuilt part by part, ring by ring.
ReadGeometry(this_, iGeomField, cell) ==
    IF cell.isnull THEN [null |-> TRUE, g |-> <<>>]
    ELSE IF this_.layout.m_aeGeomEncoding[iGeomField + 1] \in {"WKB", "WKT"}
            /\ cell.v.st # "ok"
    THEN [null |-> TRUE, g |-> <<>>]
    ELSE [null |-> FALSE, g |-> cell.v.g]

\* ---------------------------------------------------- GetNextRawFeature
\* A read through a cached shortcut: aux_stale records a read through a
\* shortcut that is not an array of the current batch.
NoteDeref(this_, ptr) ==
    [this_ EXCEPT !.aux_stale = @ \/ ptr # this_.m_poBatch]

\* WKBSkipToNextFeature without the bounding-box probe of the WKB bytes:
\* a row with no bbox quadruple is never skipped.
WKBSkipToNextFeature_NoProbe(this_) ==
    LET i == this_.m_nIdxInBatch
        lay == this_.layout
        iCol == GeomColumn(this_, this_.m_iGeomFieldFilter)
        poArray == IF this_.m_poArrayWKB # 0 THEN this_.m_poArrayWKB
                   ELSE this_.m_poArrayWKBLarge
        cell == ColumnCell(this_, poArray, iCol, i)
    IN IF cell.isnull THEN TRUE
       ELSE IF this_.m_poArrayMinX # 0
               /\ (this_.m_poArrayBBOX = 0
                   \/ ~ColumnCell(this_, this_.m_poArrayBBOX,
                          lay.m_anMapFieldIndexToArrowColumn[
                              lay.m_iBBOXMinXField + 1][1], i).isnull)
               /\ ~FieldCell(this_, lay.m_iBBOXMinXField,
                             this_.m_poArrayMinX, i).isnull
       THEN ~Intersects(this_.m_sFilterEnvelope,
                Env(FieldCell(this_, lay.m_iBBOXMinXField,
                              this_.m_poArrayMinX, i).v,
                    FieldCell(this_, lay.m_iBBOXMinYField,
                              this_.m_poArrayMinY, i).v,
                    FieldCell(this_, lay.m_iBBOXMaxXField,
                              this_.m_poArrayMaxX, i).v,
                    FieldCell(this_, lay.m_iBBOXMaxYField,
                              this_.m_poArrayMaxY, i).v))
       ELSE FALSE

\* bSkipToNextFeature of the WKB loop, for the row at m_nIdxInBatch.
\* Geometries of the model are far shorter than INT_MAX bytes.
WKBSkipToNextFeature(this_) ==
    LET i == this_.m_nIdxInBatch
        lay == this_.layout
        iCol == GeomColumn(this_, this_.m_iGeomFieldFilter)
        poArray == IF this_.m_poArrayWKB # 0 THEN this_.m_poArrayWKB
                   ELSE this_.m_poArrayWKBLarge
        cell == ColumnCell(this_, poArray, iCol, i)
        probe == OGRWKBGetBoundingBox(cell)
    IN IF cell.isnull THEN TRUE
       ELSE IF this_.m_poArrayMinX # 0
               /\ (this_.m_poArrayBBOX = 0
                   \/ ~ColumnCell(this_, this_.m_poArrayBBOX,
                          lay.m_anMapFieldIndexToArrowColumn[
                              lay.m_iBBOXMinXField + 1][1], i).isnull)
               /\ ~FieldCell(this_, lay.m_iBBOXMinXField,
                             this_.m_poArrayMinX, i).isnull
       THEN LET sEnvelope ==
                    Env(FieldCell(this_, lay.m_iBBOXMinXField,
                                  this_.m_poArrayMinX, i).v,
                        FieldCell(this_, lay.m_iBBOXMinYField,
                                  this_.m_poArrayMinY, i).v,
                        FieldCell(this_, lay.m_iBBOXMaxXField,
                                  this_.m_poArrayMaxX, i).v,
                        FieldCell(this_, lay.m_iBBOXMaxYField,
                                  this_.m_poArrayMaxY, i).v)
            IN ~Intersects(this_.m_sFilterEnvelope, sEnvelope)
       ELSE probe.ok /\ ~Intersects(this_.m_sFilterEnvelope, probe.env)

\* The multipolygon loop breaks on a non-null row with nParts != 0 whose
\* first rings intersect the filter envelope.
MultiPolygonSkipToNextFeature(this_) ==
    LET cell == ColumnCell(this_, this_.m_poBatchColumns,
                           GeomColumn(this_, this_.m_iGeomFieldFilter),
                           this_.m_nIdxInBatch)
    IN ~(/\ ~cell.isnull
         /\ Len(cell.v.g) # 0
         /\ Intersects(this_.m_sFilterEnvelope,
                       MergeFirstRings(OGREnvelope, cell.v.g)))

\* bSkipToNextFeature of the loop that decodes the geometry.
GenericSkipToNextFeature(this_) ==
    LET cell == ColumnCell(this_, this_.m_poBatchColumns,
                           GeomColumn(this_, this_.m_iGeomFieldFilter),
                           this_.m_nIdxInBatch)
        poGeometry == ReadGeometry(this_, this_.m_iGeomFieldFilter, cell)
    IN IF poGeometry.null \/ IsEmpty(poGeometry.g) THEN TRUE
       ELSE ~Intersects(this_.m_sFilterEnvelope, getEnvelope(poGeometry.g))

SpatialSkipToNextFeature(this_, path) ==
    CASE path = "WKB" -> WKBSkipToNextFeature(this_)
      [] path = "GEOARROW_MULTIPOLYGON" -> MultiPolygonSkipToNextFeature(this_)
      [] OTHER -> GenericSkipToNextFeature(this_)

\* AdvanceRow without m_nFeatureIdx++: skipped rows are not counted.
AdvanceRow_NotCounting(this_) ==
    LET t1 == [this_ EXCEPT !.m_nIdxInBatch = @ + 1]
    IN IF t1.m_nIdxInBatch = num_rows(t1.m_poBatch) THEN PullOrEOF(t1) ELSE t1

\* m_nFeatureIdx++; m_nIdxInBatch++; and the pull at the end of the batch.
AdvanceRow(this_) ==
    LET t1 == [this_ EXCEPT !.m_nFeatureIdx = @ + 1, !.m_nIdxInBatch = @ + 1]
    IN IF t1.m_nIdxInBatch = num_rows(t1.m_poBatch) THEN PullOrEOF(t1) ELSE t1

\* The while (true) loop of one spatial path.  It ends with m_bEOF set
\* (the caller returns nullptr) or on the row it broke at.
RECURSIVE SpatialLoop(_, _)
SpatialLoop(this_, path) ==
    LET t0 == IF path = "WKB"
              THEN NoteDeref(this_, IF this_.m_poArrayWKB # 0
                                    THEN this_.m_poArrayWKB
                                    ELSE this_.m_poArrayWKBLarge)
              ELSE this_
    IN IF ~SpatialSkipToNextFeature(t0, path) THEN t0
       ELSE IF t0.m_asAttributeFilterConstraints # <<>>
               /\ ~SkipToNextFeatureDueToAttributeFilter(t0)
       THEN t0
       ELSE LET t1 == AdvanceRow(t0)
            IN IF t1.m_bEOF THEN t1 ELSE SpatialLoop(t1, path)

\* The loop taken with attribute constraints and no spatial filter.
RECURSIVE AttributeLoop(_)
AttributeLoop(this_) ==
    IF ~SkipToNextFeatureDueToAttributeFilter(this_) THEN this_
    ELSE LET t1 == AdvanceRow(this_)
         IN IF t1.m_bEOF THEN t1 ELSE AttributeLoop(t1)

\* What a call returned: kind names the result ("nullptr", "feature",
\* "extent", "array", "void"); fid, batch, row describe a feature; err and
\* env the result of GetExtent; err and length that of GetNextArrowArray.
Ret(kind, fid, batch, row, err, env, length) ==
    [kind |-> kind, fid |-> fid, batch |-> batch, row |-> row,
     err |-> err, env |-> env, length |-> length]

NoFeature == Ret("nullptr", 0 - 1, 0, 0, "OGRERR_NONE", OGREnvelope, 0)

\* ReadFeature(nIdxInBatch, m_poBatchColumns) and the FID it is given: the
\* returned feature is the decoded row `row` of batch `batch`.
ReadFeature(this_) ==
    LET lay == this_.layout
        fidCell == ColumnCell(this_, this_.m_poBatchColumns,
                              IF lay.m_bIgnoredFields
                              THEN lay.m_nRequestedFIDColumn
                              ELSE lay.m_iFIDArrowColumn,
                              this_.m_nIdxInBatch)
    IN Ret("feature",
           IF lay.m_iFIDArrowColumn >= 0
           THEN (IF fidCell.isnull THEN 0 - 1 ELSE fidCell.v)
           ELSE this_.m_nFeatureIdx,
           this_.m_poBatchColumns, this_.m_nIdxInBatch,
           "OGRERR_NONE", OGREnvelope, 0)

\* GetNextRawFeature without the test of m_bEOF on entry.
GetNextRawFeature_NoEOFTest(this_) ==
    IF ~this_.m_bSpatialFilterIntersectsLayerExtent
    THEN [this |-> this_, ret |-> NoFeature]
    ELSE
    LET t1 == IF this_.m_poBatch = 0
                 \/ this_.m_nIdxInBatch = num_rows(this_.m_poBatch)
              THEN PullOrEOF(this_) ELSE this_
    IN IF t1.m_bEOF THEN [this |-> t1, ret |-> NoFeature]
       ELSE
       LET iCol == GeomColumn(t1, t1.m_iGeomFieldFilter)
           enc == t1.layout.m_aeGeomEncoding[t1.m_iGeomFieldFilter + 1]
           t2 == IF t1.m_poFilterGeom # 0
                 THEN (IF iCol >= 0 THEN SpatialLoop(t1, enc) ELSE t1)
                 ELSE IF t1.m_asAttributeFilterConstraints # <<>>
                 THEN AttributeLoop(t1)
                 ELSE t1
       IN IF t2.m_bEOF THEN [this |-> t2, ret |-> NoFeature]
          ELSE [this |-> [t2 EXCEPT !.m_nFeatureIdx = @ + 1,
                                     !.m_nIdxInBatch = @ + 1],
                ret |-> ReadFeature(t2)]

\* [this, ret]
GetNextRawFeature(this_) ==
    IF this_.m_bEOF \/ ~this_.m_bSpatialFilterIntersectsLayerExtent
    THEN [this |-> this_, ret |-> NoFeature]
    ELSE
    LET t1 == IF this_.m_poBatch = 0
                 \/ this_.m_nIdxInBatch = num_rows(this_.m_poBatch)
              THEN PullOrEOF(this_) ELSE this_
    IN IF t1.m_bEOF THEN [this |-> t1, ret |-> NoFeature]
       ELSE
       LET iCol == GeomColumn(t1, t1.m_iGeomFieldFilter)
           enc == t1.layout.m_aeGeomEncoding[t1.m_iGeomFieldFilter + 1]
           t2 == IF t1.m_poFilterGeom # 0
                 THEN (IF iCol >= 0 THEN SpatialLoop(t1, enc) ELSE t1)
                 ELSE IF t1.m_asAttributeFilterConstraints # <<>>
                 THEN AttributeLoop(t1)
                 ELSE t1
       IN IF t2.m_bEOF THEN [this |-> t2, ret |-> NoFeature]
          ELSE [this |-> [t2 EXCEPT !.m_nFeatureIdx = @ + 1,
                                     !.m_nIdxInBatch = @ + 1],
                ret |-> ReadFeature(t2)]

\* -------------------------------------------------- extent of the layer
\* GetExtentFromMetadata(oJSONDef, psExtent): [ok, env], bbox the "bbox"
\* array of the geometry column's metadata (<<>> when there is none).
GetExtentFromMetadata(bbox) ==
    IF Len(bbox) = 4
    THEN [ok |-> bbox[1] <= bbox[3],
          env |-> Env(bbox[1], bbox[2], bbox[3], bbox[4])]
    ELSE IF Len(bbox) = 6
    THEN [ok |-> bbox[1] <= bbox[4],
          env |-> Env(bbox[1], bbox[2], bbox[4], bbox[5])]
    ELSE [ok |-> FALSE, env |-> OGREnvelope]

\* FastGetExtent without the lookup in m_oMapExtents.
FastGetExtent_NoCache(this_, iGeomField) ==
    IF this_.layout.USE_BBOX
    THEN GetExtentFromMetadata(
             this_.layout.m_oMapGeometryColumns[iGeomField + 1])
    ELSE [ok |-> FALSE, env |-> OGREnvelope]

\* FastGetExtent(iGeomField, psExtent): [ok, env]
FastGetExtent(this_, iGeomField) ==
    IF this_.m_oMapExtents[iGeomField + 1].has
    THEN [ok |-> TRUE, env |-> this_.m_oMapExtents[iGeomField + 1].env]
    ELSE IF this_.layout.USE_BBOX
    THEN GetExtentFromMetadata(
             this_.layout.m_oMapGeometryColumns[iGeomField + 1])
    ELSE [ok |-> FALSE, env |-> OGREnvelope]

\* ----------------------------------------------------- SetSpatialFilter
\* Envelope of the filter geometry number poGeomIn (0 is nullptr).
FilterEnvelopeOf(poGeomIn) ==
    IF poGeomIn = 1 THEN Env(0, 0, 1, 1) ELSE Env(5, 5, 6, 6)

\* OGRLayer::InstallFilter(poFilter): [changed, this].
InstallFilter(this_, poFilter) ==
    IF this_.m_poFilterGeom = poFilter
    THEN [changed |-> FALSE, this |-> this_]
    ELSE [changed |-> TRUE,
          this |-> [this_ EXCEPT
                      !.m_poFilterGeom = poFilter,
                      !.m_sFilterEnvelope =
                          IF poFilter = 0 THEN @
                          ELSE FilterEnvelopeOf(poFilter)]]

GetGeomFieldCount(this_) == Len(this_.layout.m_aeGeomEncoding)

SetSpatialFilter(this_, iGeomField, poGeomIn) ==
    IF iGeomField < 0
       \/ (iGeomField >= GetGeomFieldCount(this_)
           /\ ~(iGeomField = 0 /\ poGeomIn = 0))
    THEN this_
    ELSE
    LET t0 == IF this_.m_poFilterGeom # 0
              THEN InvalidateCachedBatches(this_) ELSE this_
        t1 == [t0 EXCEPT !.m_bSpatialFilterIntersectsLayerExtent = TRUE]
        t2 == IF iGeomField < GetGeomFieldCount(this_)
              THEN LET a == [t1 EXCEPT !.m_iGeomFieldFilter = iGeomField]
                       inst == InstallFilter(a, poGeomIn)
                       b == IF inst.changed THEN ResetReading(inst.this)
                            ELSE inst.this
                       sLayerExtent == FastGetExtent(b, iGeomField)
                   IN IF b.m_poFilterGeom # 0 /\ sLayerExtent.ok
                      THEN [b EXCEPT
                              !.m_bSpatialFilterIntersectsLayerExtent =
                                  Intersects(b.m_sFilterEnvelope,
                                             sLayerExtent.env)]
                      ELSE b
              ELSE t1
    IN SetBatch(t2, t2.m_poBatch)

\* --------------------------------------------------- SetAttributeFilter
NullQuery == [eNodeType |-> "nullptr"]

\* OGRLayer::SetAttributeFilter(pszFilter): the parsed expression becomes
\* m_poAttrQuery (NullQuery for a null or empty filter) and reading is
\* rewound.
OGRLayerSetAttributeFilter(this_, poQuery) ==
    ResetReading([this_ EXCEPT !.m_poAttrQuery = poQuery])

\* The optimized-attribute-filter option is at its default (YES).
SetAttributeFilter(this_, poQuery) ==
    LET t0 == [this_ EXCEPT !.m_asAttributeFilterConstraints = <<>>]
        t1 == IF this_.m_poAttrQuery # NullQuery
              THEN InvalidateCachedBatches(t0) ELSE t0
        t2 == OGRLayerSetAttributeFilter(t1, poQuery)
    IN IF t2.m_poAttrQuery # NullQuery
       THEN ComputeConstraintsArrayIdx(
                [t2 EXCEPT !.m_asAttributeFilterConstraints =
                               ExploreExprNode(t2, t2.m_poAttrQuery)])
       ELSE t2

\* ------------------------------------------------------------ GetExtent
\* What the row at m_nIdxInBatch adds to *psExtent in the row-by-row pass.
ExtentMergeRow(this_, iGeomField, iCol, psExtent) ==
    LET cell == ColumnCell(this_, this_.m_poBatchColumns, iCol,
                           this_.m_nIdxInBatch)
        probe == OGRWKBGetBoundingBox(cell)
    IN IF cell.isnull THEN psExtent
       ELSE IF this_.layout.m_aeGeomEncoding[iGeomField + 1] = "WKB"
       THEN (IF probe.ok THEN Merge(psExtent, probe.env) ELSE psExtent)
       ELSE MergeFirstRings(psExtent, cell.v.g)

\* The while (true) loop of the WKB and of the multipolygon pass:
\* [this, ret].
RECURSIVE ExtentLoop(_, _, _, _)
ExtentLoop(this_, iGeomField, iCol, psExtent) ==
    LET ext == ExtentMergeRow(this_, iGeomField, iCol, psExtent)
        t1 == AdvanceRow(this_)
    IN IF t1.m_bEOF
       THEN LET t2 == ResetReading(t1)
            IN IF IsInit(ext)
               THEN [this |-> [t2 EXCEPT
                                 !.m_oMapExtents[iGeomField + 1] =
                                     [has |-> TRUE, env |-> ext]],
                     ret |-> Ret("extent", 0 - 1, 0, 0, "OGRERR_NONE", ext, 0)]
               ELSE [this |-> t2,
                     ret |-> Ret("extent", 0 - 1, 0, 0, "OGRERR_FAILURE",
                                 ext, 0)]
       ELSE ExtentLoop(t1, iGeomField, iCol, ext)

ExtentFailure(this_) ==
    [this |-> this_,
     ret |-> Ret("extent", 0 - 1, 0, 0, "OGRERR_FAILURE", OGREnvelope, 0)]

\* TRUE when GetExtent(iGeomField, psExtent, bForce) ends within this
\* file; otherwise it hands over to OGRLayer::GetExtentInternal.
GetExtentIsLocal(this_, iGeomField, bForce) ==
    IF iGeomField < 0 \/ iGeomField >= GetGeomFieldCount(this_)
    THEN TRUE
    ELSE IF FastGetExtent(this_, iGeomField).ok THEN TRUE
    ELSE IF ~bForce /\ ~this_.layout.CanRunNonForcedGetExtent THEN TRUE
    ELSE IF GeomColumn(this_, iGeomField) < 0 THEN TRUE
    ELSE this_.layout.m_aeGeomEncoding[iGeomField + 1]
             \in {"WKB", "GEOARROW_MULTIPOLYGON"}

\* [this, ret]
GetExtent(this_, iGeomField, bForce) ==
    IF iGeomField < 0 \/ iGeomField >= GetGeomFieldCount(this_)
    THEN ExtentFailure(this_)
    ELSE IF FastGetExtent(this_, iGeomField).ok
    THEN [this |-> this_,
          ret |-> Ret("extent", 0 - 1, 0, 0, "OGRERR_NONE",
                      FastGetExtent(this_, iGeomField).env, 0)]
    ELSE IF ~bForce /\ ~this_.layout.CanRunNonForcedGetExtent
    THEN ExtentFailure(this_)
    ELSE IF GeomColumn(this_, iGeomField) < 0
    THEN ExtentFailure(this_)
    ELSE LET t0 == ResetReading(this_)
             t1 == IF t0.m_poBatch = 0 THEN PullOrEOF(t0) ELSE t0
         IN IF t1.m_bEOF THEN ExtentFailure(t1)
            ELSE ExtentLoop(t1, iGeomField, GeomColumn(this_, iGeomField),
                            OGREnvelope)

\* --------------------------------------------- full-record evaluation
\* The value of a field of the decoded record as a double (halves), and
\* of a numeric constant node.
NumAsDouble(fieldType, v) == IF fieldType = "OFTReal" THEN v ELSE 2 * v

ConstAsDouble(poValue) ==
    IF poValue.field_type = "SWQ_FLOAT" THEN poValue.float_value
    ELSE 2 * poValue.int_value

\* swq_expr_node::Evaluate on the decoded record `cells` (the cell of
\* field i is cells[i + 1]): "T", "F", or "N" when a null value makes the
\* comparison unknown.  fid is the feature's identifier.
RECURSIVE EvaluateNode(_, _, _, _)
EvaluateNode(defn, poNode, cells, fid) ==
    LET op == poNode.nOperation
        sub == poNode.papoSubExpr
    IN
    IF op = "SWQ_AND"
    THEN LET a == EvaluateNode(defn, sub[1], cells, fid)
             b == EvaluateNode(defn, sub[2], cells, fid)
         IN IF a = "F" \/ b = "F" THEN "F"
            ELSE IF a = "N" \/ b = "N" THEN "N" ELSE "T"
    ELSE IF op = "SWQ_OR"
    THEN LET a == EvaluateNode(defn, sub[1], cells, fid)
             b == EvaluateNode(defn, sub[2], cells, fid)
         IN IF a = "T" \/ b = "T" THEN "T"
            ELSE IF a = "N" \/ b = "N" THEN "N" ELSE "F"
    ELSE IF op = "SWQ_NOT"
    THEN LET a == EvaluateNode(defn, sub[1], cells, fid)
         IN IF a = "T" THEN "F" ELSE IF a = "F" THEN "T" ELSE "N"
    ELSE IF op = "SWQ_ISNULL"
    THEN IF cells[sub[1].field_index + 1].isnull THEN "T" ELSE "F"
    ELSE LET iColumn == GetColumnSubNode(poNode)
             iValue == GetConstantSubNode(poNode)
             poColumn == sub[iColumn]
             poValue == sub[iValue]
             isFID == poColumn.field_index = Len(defn) + SPF_FID
             fieldType == IF isFID THEN "OFTInteger64"
                          ELSE defn[poColumn.field_index + 1]
             cell == IF isFID THEN [isnull |-> FALSE, v |-> fid]
                     ELSE cells[poColumn.field_index + 1]
             colVal == IF fieldType = "OFTString" THEN cell.v
                       ELSE NumAsDouble(fieldType, cell.v)
             litVal == IF fieldType = "OFTString" THEN poValue.string_value
                       ELSE ConstAsDouble(poValue)
             lhs == IF iColumn = 1 THEN colVal ELSE litVal
             rhs == IF iColumn = 1 THEN litVal ELSE colVal
             cmp == IF fieldType = "OFTString" THEN StrCompare(lhs, rhs)
                    ELSE IF lhs < rhs THEN 0 - 1
                    ELSE IF lhs > rhs THEN 1 ELSE 0
             holds == CASE op = "SWQ_EQ" -> cmp = 0
                        [] op = "SWQ_NE" -> cmp # 0
                        [] op = "SWQ_LT" -> cmp < 0
                        [] op = "SWQ_LE" -> cmp <= 0
                        [] op = "SWQ_GT" -> cmp > 0
                        [] op = "SWQ_GE" -> cmp >= 0
         IN IF cell.isnull THEN "N"
            ELSE IF holds THEN "T" ELSE "F"

\* OGRFeatureQuery::Evaluate: the row is kept when the expression is true.
AttrQueryEvaluate(this_, cells, fid) ==
    this_.m_poAttrQuery = NullQuery
    \/ EvaluateNode(this_.layout.FieldDefn, this_.m_poAttrQuery, cells, fid) = "T"

\* OGRLayer::FilterGeometry on the decoded geometry of a cell: the row is
\* kept when there is no filter, or the geometry is not null and its
\* envelope intersects the filter envelope.
FilterGeometry(this_, cell) ==
    LET poGeometry == ReadGeometry(this_, this_.m_iGeomFieldFilter, cell)
    IN this_.m_poFilterGeom = 0
       \/ (/\ ~poGeometry.null
           /\ Intersects(this_.m_sFilterEnvelope, getEnvelope(poGeometry.g)))

\* The decoded attribute fields of row i of batch b, by field index.
DecodedFields(this_, b, i) ==
    [f \in 1..GetFieldCount(this_) |->
        CellAtPath(RowAt(b, i).cols[
                       this_.layout.m_anMapFieldIndexToArrowColumn[f][1] + 1],
                   Tail(this_.layout.m_anMapFieldIndexToArrowColumn[f]))]

\* The geometry cell of field iGeomField in row i of batch b.
GeometryCell(this_, iGeomField, b, i) ==
    RowAt(b, i).cols[
        this_.layout.m_anMapGeomFieldIndexToArrowColumn[iGeomField + 1] + 1]

\* ---------------------------------------------------- GetNextArrowArray
\* OGRLayer::PostFilterArrowArray(schema, array, options): the length the
\* array is left with, the rows of batch b that the attribute query and
\* the spatial filter keep.  nBaseFID is BASE_SEQUENTIAL_FID.
PostFilterArrowArray(this_, b, nBaseFID) ==
    Cardinality({i \in 0..(num_rows(b) - 1) :
        /\ AttrQueryEvaluate(this_, DecodedFields(this_, b, i), nBaseFID + i)
        /\ FilterGeometry(this_,
               GeometryCell(this_, this_.m_iGeomFieldFilter, b, i))})

\* The array a call returns: batch 0 is the zero-initialized ArrowArray
\* (release == nullptr), otherwise the batch that was exported.
ArrayRet(err, batch, length) ==
    Ret("array", 0 - 1, batch, 0, err, OGREnvelope, length)

\* --------------------------------------------- Arrow C data interface
\* The element of a one-element set: Only({F(x) : x \in {e}}) is F(e) with
\* e evaluated once.
Only(S) == CHOOSE x \in S : TRUE

\* heap_: the dataset's shared memory pool and the exported arrays that
\* have not been released.  poMemoryPool.use_count counts the shared_ptr
\* references to the pool, which is freed when the last one goes; open is
\* the reference the dataset itself holds.  live holds the identity
\* <<struct of the consumer, child (0 for the parent), built>> of every
\* array that is allocated and not released.  aux_badRelease records a
\* release of something not live or a call through a null release
\* callback; aux_poolUsedAfterFree a release callback of Arrow running
\* after the pool was freed.
NewHeap ==
    [open |-> TRUE,
     poMemoryPool |-> [use_count |-> 1, freed |-> FALSE],
     live |-> {},
     aux_badRelease |-> FALSE,
     aux_poolUsedAfterFree |-> FALSE]

\* A null buffers[0].
NoBuffer == [has |-> FALSE, bits |-> <<>>]

\* private_data: nullptr, the private data of the exporter ("Original"), or
\* an OverriddenPrivate with its three members.
NoPrivate ==
    [kind |-> "nullptr", poMemoryPool |-> FALSE,
     pfnPreviousRelease |-> "nullptr", pPreviousPrivateData |-> "nullptr"]

\* memset(out_array, 0, sizeof(*out_array)).  A struct ArrowArray or
\* ArrowSchema: release names the callback ("nullptr", "Original" for the
\* exporter's, "ReleaseArray", "OverriddenPrivate"); validity is
\* buffers[0], data the values of a geometry column; aux_releases counts
\* the runs of the exporter's or OGRLayer's release callback on it.
ZeroStruct ==
    [release |-> "nullptr", private_data |-> NoPrivate, id |-> <<0, 0, 0>>,
     length |-> 0, null_count |-> 0, offset |-> 0, validity |-> NoBuffer,
     data |-> <<>>, children |-> <<>>, aux_releases |-> 0]

\* The shared_ptr reference count of the pool going down by one.
DropPoolRef(heap_) ==
    LET n == heap_.poMemoryPool.use_count - 1
    IN [heap_ EXCEPT !.poMemoryPool =
                         [use_count |-> n, freed |-> @.freed \/ n = 0]]

\* The release callback of the exporter (Arrow) or OGRLayer::ReleaseArray
\* on a struct: it releases the children that are not released, then the
\* struct, and marks them released.  [heap, obj]
OriginalRelease(heap_, obj) ==
    LET kids == {c \in 1..Len(obj.children) :
                    obj.children[c].release # "nullptr"}
        ids == {obj.id} \cup {obj.children[c].id : c \in kids}
        bArrow == obj.release = "Original"
                  \/ \E c \in kids : obj.children[c].release = "Original"
    IN [heap |-> [heap_ EXCEPT
                    !.live = @ \ ids,
                    !.aux_badRelease =
                        @ \/ ~(ids \subseteq heap_.live)
                          \/ obj.release \notin {"Original", "ReleaseArray"},
                    !.aux_poolUsedAfterFree =
                        @ \/ (bArrow /\ heap_.poMemoryPool.freed)],
        obj |-> [obj EXCEPT
                   !.release = "nullptr",
                   !.aux_releases = @ + 1,
                   !.children =
                       [c \in 1..Len(obj.children) |->
                           [obj.children[c] EXCEPT
                              !.release = "nullptr",
                              !.aux_releases =
                                  IF c \in kids THEN @ + 1 ELSE @]]]]

\* OverriddenPrivate::release deleting myPrivate before it calls the
\* previous release callback.
OverriddenPrivateRelease_DeleteFirst(heap_, l_obj) ==
    LET myPrivate == l_obj.private_data
        h1 == IF myPrivate.poMemoryPool THEN DropPoolRef(heap_) ELSE heap_
        o1 == [l_obj EXCEPT
                 !.private_data =
                     [NoPrivate EXCEPT
                        !.kind = myPrivate.pPreviousPrivateData],
                 !.release = myPrivate.pfnPreviousRelease]
    IN OriginalRelease(h1, o1)

\* OverriddenPrivate::release(l_obj): [heap, obj]
OverriddenPrivateRelease(heap_, l_obj) ==
    LET myPrivate == l_obj.private_data
        o1 == [l_obj EXCEPT
                 !.private_data =
                     [NoPrivate EXCEPT
                        !.kind = myPrivate.pPreviousPrivateData],
                 !.release = myPrivate.pfnPreviousRelease]
        r == OriginalRelease(heap_, o1)
    IN [heap |-> IF myPrivate.poMemoryPool THEN DropPoolRef(r.heap)
                 ELSE r.heap,
        obj |-> r.obj]

\* obj->release(obj): [heap, obj]
CallRelease(heap_, obj) ==
    IF obj.release = "OverriddenPrivate"
    THEN OverriddenPrivateRelease(heap_, obj)
    ELSE OriginalRelease(heap_, obj)

\* OverrideArrowRelease(poDS, obj): [heap, obj]
OverrideArrowRelease(heap_, obj) ==
    [heap |-> [heap_ EXCEPT !.poMemoryPool.use_count = @ + 1],
     obj |-> [obj EXCEPT
                !.release = "OverriddenPrivate",
                !.private_data =
                    [kind |-> "OverriddenPrivate",
                     poMemoryPool |-> TRUE,
                     pfnPreviousRelease |-> obj.release,
                     pPreviousPrivateData |-> obj.private_data.kind]]]

\* The destructor of the dataset gives up its reference to the pool.
CloseDataset(heap_) == DropPoolRef([heap_ EXCEPT !.open = FALSE])

\* The number of arrays of a batch: the columns of the file, or the
\* requested ones when fields are ignored.
NumArrays(this_) ==
    IF this_.layout.m_bIgnoredFields
    THEN Len(this_.layout.m_anRequestedColumns)
    ELSE Len(this_.layout.m_poSchema)

\* The geometry field whose array is iArrayIdx, or -1.
GeomFieldOfArray(this_, iArrayIdx) ==
    LET s == {i \in 0..(GetGeomFieldCount(this_) - 1) :
                 GeomColumn(this_, i) = iArrayIdx}
    IN IF s = {} THEN 0 - 1 ELSE CHOOSE i \in s : TRUE

\* The struct ArrowArray arrow::ExportRecordBatch builds for array
\* iArrayIdx of batch b, for the k-th struct of the consumer.  xp.nOffset
\* is the offset of the arrays the batch source hands out, slices of
\* longer buffers whose leading elements are valid when xp.bLead (and
\* then hold text that is no geometry of the file); xp.bBitmap tells
\* whether an array without nulls carries a validity bitmap; an array
\* with a bitmap has its nulls counted when xp.bCount, and the null count
\* -1 of a count not computed yet otherwise.
ExportedChild(this_, b, k, iArrayIdx, xp) ==
    LET n == num_rows(b)
        cell(i) == ColumnCell(this_, b, iArrayIdx, i - 1)
        nulls == Cardinality({i \in 1..n : cell(i).isnull})
        iGeom == GeomFieldOfArray(this_, iArrayIdx)
        enc == this_.layout.m_aeGeomEncoding[iGeom + 1]
        text(c) == [enc |-> enc,
                    st |-> IF c.isnull THEN "null" ELSE c.v.st,
                    g |-> c.v.g]
    IN [ZeroStruct EXCEPT
          !.release = "Original",
          !.private_data = [NoPrivate EXCEPT !.kind = "Original"],
          !.id = <<k, iArrayIdx + 1, 0>>,
          !.length = n,
          !.null_count = IF nulls = 0 /\ ~xp.bBitmap THEN 0
                         ELSE IF xp.bCount THEN nulls ELSE 0 - 1,
          !.offset = xp.nOffset,
          !.validity =
              IF nulls = 0 /\ ~xp.bBitmap THEN NoBuffer
              ELSE [has |-> TRUE,
                    bits |-> [i \in 1..(xp.nOffset + n) |->
                                 IF i <= xp.nOffset THEN xp.bLead
                                 ELSE ~cell(i - xp.nOffset).isnull]],
          !.data =
              IF iGeom < 0 THEN <<>>
              ELSE [i \in 1..(xp.nOffset + n) |->
                       IF i <= xp.nOffset
                       THEN [enc |-> enc, st |-> "lead", g |-> <<>>]
                       ELSE text(cell(i - xp.nOffset))]]

\* arrow::ExportRecordBatch(*m_poBatch, out_array, &schema) succeeding:
\* [heap, out]
ExportRecordBatch(this_, heap_, k, xp) ==
    LET b == this_.m_poBatch
        children == [c \in 1..NumArrays(this_) |->
                        ExportedChild(this_, b, k, c - 1, xp)]
        ids == {<<k, c, 0>> : c \in 0..NumArrays(this_)}
    IN [heap |-> [heap_ EXCEPT
                    !.live = @ \cup ids,
                    !.aux_badRelease = @ \/ (ids \cap heap_.live # {})],
        out |-> [ZeroStruct EXCEPT
                   !.release = "Original",
                   !.private_data = [NoPrivate EXCEPT !.kind = "Original"],
                   !.id = <<k, 0, 0>>,
                   !.length = num_rows(b),
                   !.children = children]]

\* No allocation of CreateWKBArrayFromWKTArray fails.
NoFailure == [at |-> "none", row |-> 0]

\* OGRWKTToWKBTranslator::TranslateWKT: the well-known binary of the
\* geometry a text encodes.
TranslateWKT(text) == [enc |-> "WKB", st |-> text.st, g |-> text.g]

\* CreateWKBArrayFromWKTArray leaving the validity bitmap of the source
\* where it is, without re-basing it.
CreateWKBArrayFromWKTArray_NoRebase(sourceArray, fail) ==
    LET nLength == sourceArray.length
        sourceNull == sourceArray.validity
        bNull == sourceArray.null_count # 0 /\ sourceNull.has
        bit(i) == ~bNull \/ sourceNull.bits[i + 1]
    IN IF fail.at # "none" THEN [null |-> TRUE, array |-> ZeroStruct]
       ELSE [null |-> FALSE,
             array |->
                 [ZeroStruct EXCEPT
                    !.release = "ReleaseArray",
                    !.length = nLength,
                    !.null_count = IF bNull THEN sourceArray.null_count
                                   ELSE 0,
                    !.validity =
                        IF bNull
                        THEN [has |-> TRUE,
                              bits |-> [i \in 1..nLength |-> bit(i - 1)]]
                        ELSE NoBuffer,
                    !.data = [i \in 1..nLength |->
                                 IF bit(i - 1)
                                 THEN TranslateWKT(
                                          sourceArray.data[
                                              i + sourceArray.offset])
                                 ELSE [enc |-> "WKB", st |-> "null",
                                       g |-> <<>>]]]]

\* CreateWKBArrayFromWKTArray<SourceOffset>(sourceArray): [null, array],
\* null when it returns nullptr.  fail tells which allocation fails: that
\* of the validity bitmap, of the offsets, of the data buffer, or the
\* growth of the data buffer (allocation or size limit) while row
\* fail.row is translated.
CreateWKBArrayFromWKTArray(sourceArray, fail) ==
    LET nLength == sourceArray.length
        sourceNull == sourceArray.validity
        nOffset == sourceArray.offset
        bNull == sourceArray.null_count # 0 /\ sourceNull.has
        bTargetNull == bNull /\ fail.at # "validity"
        targetNull ==
            IF nOffset = 0
            THEN SubSeq(sourceNull.bits, 1, nLength)
            ELSE [i \in 1..nLength |-> sourceNull.bits[i + nOffset]]
        bSkip(i) == bTargetNull /\ ~targetNull[i + 1]
        bBuffers == (bNull /\ ~bTargetNull)
                    \/ fail.at \in {"offsets", "data"}
        bTranslate == fail.at = "translate" /\ fail.row < nLength
                      /\ ~bSkip(fail.row)
    IN IF bBuffers \/ bTranslate THEN [null |-> TRUE, array |-> ZeroStruct]
       ELSE [null |-> FALSE,
             array |->
                 [ZeroStruct EXCEPT
                    !.release = "ReleaseArray",
                    !.length = nLength,
                    !.null_count = IF bTargetNull
                                   THEN sourceArray.null_count ELSE 0,
                    !.validity = IF bTargetNull
                                 THEN [has |-> TRUE, bits |-> targetNull]
                                 ELSE NoBuffer,
                    !.data = [i \in 1..nLength |->
                                 IF bSkip(i - 1)
                                 THEN [enc |-> "WKB", st |-> "null",
                                       g |-> <<>>]
                                 ELSE TranslateWKT(
                                          sourceArray.data[i + nOffset])]]]

\* The loop of GetNextArrowArray going on with the text column in place
\* when CreateWKBArrayFromWKTArray returns nullptr.
ReplaceWKTColumn_KeepSource(this_, heap_, out_array, i, targetArray) ==
    [ok |-> TRUE, heap |-> heap_, out |-> out_array, i |-> i + 1]

\* One round of the loop of GetNextArrowArray over the geometry fields,
\* for field i whose WKT column is to be replaced, targetArray being the
\* result of CreateWKBArrayFromWKTArray: [ok, heap, out, i]
ReplaceWKTColumn(this_, heap_, out_array, i, targetArray) ==
    LET nArrayIdx == GeomColumn(this_, i)
        sourceArray == out_array.children[nArrayIdx + 1]
        id == <<sourceArray.id[1], sourceArray.id[2], 1>>
    IN IF ~targetArray.null
       THEN [ok |-> TRUE,
             heap |-> [CallRelease(heap_, sourceArray).heap EXCEPT
                         !.live = @ \cup {id}],
             out |-> [out_array EXCEPT
                        !.children[nArrayIdx + 1] =
                            [targetArray.array EXCEPT !.id = id]],
             i |-> i + 1]
       ELSE [ok |-> FALSE,
             heap |-> CallRelease(heap_, out_array).heap,
             out |-> ZeroStruct,
             i |-> i + 1]

\* The loop of GetNextArrowArray over the geometry fields from field i
\* on, replacing each requested WKT column by a WKB one: [ok, heap, out];
\* ok is FALSE when it returns ENOMEM.
RECURSIVE ConvertWKTColumns(_, _, _, _, _)
ConvertWKTColumns(this_, heap_, out_array, i, xp) ==
    IF i >= GetGeomFieldCount(this_)
    THEN [ok |-> TRUE, heap |-> heap_, out |-> out_array, i |-> i]
    ELSE IF this_.layout.m_abGeomFieldIgnored[i + 1]
            \/ this_.layout.m_aeGeomEncoding[i + 1] # "WKT"
    THEN ConvertWKTColumns(this_, heap_, out_array, i + 1, xp)
    ELSE Only({IF c.ok
               THEN ConvertWKTColumns(this_, c.heap, c.out, c.i, xp) ELSE c :
               c \in {ReplaceWKTColumn(
                          this_, heap_, out_array, i,
                          Only({a : a \in {CreateWKBArrayFromWKTArray(
                                   out_array.children[GeomColumn(this_, i) + 1],
                                   IF xp.iFailField = i THEN xp.fail
                                   ELSE NoFailure)}}))}})

\* The export a consumer of the stream specifications sees: arrays with
\* no offset, and, with bWKTFails, a failing conversion of the first
\* geometry field.
StreamExport(bWKTFails) ==
    [nOffset |-> 0, bLead |-> TRUE, bBitmap |-> FALSE, bCount |-> TRUE,
     iFailField |-> IF bWKTFails THEN 0 ELSE 0 - 1,
     fail |-> [at |-> "data", row |-> 0]]

\* GetNextArrowArray from the export of the batch t2 is at on: wrapped is
\* the converted array after OverrideArrowRelease.  [this, ret, heap,
\* out, bAgain], bAgain when the loop goes round again.
FilterExportedBatch(t2, wrapped, bFilter) ==
    LET nFeatureIdxCur == t2.m_nFeatureIdx
        t3 == [t2 EXCEPT !.m_nFeatureIdx = @ + t2.m_nIdxInBatch]
        length == IF bFilter
                  THEN PostFilterArrowArray(t3, t3.m_poBatch, nFeatureIdxCur)
                  ELSE num_rows(t3.m_poBatch)
    IN Only({IF bFilter /\ n = 0
             THEN [this |-> t3, ret |-> ArrayRet("0", 0, 0),
                   heap |-> CallRelease(wrapped.heap,
                                        [wrapped.obj EXCEPT !.length = n]).heap,
                   out |-> ZeroStruct, bAgain |-> TRUE]
             ELSE [this |-> t3, ret |-> ArrayRet("0", t3.m_poBatch, n),
                   heap |-> wrapped.heap,
                   out |-> [wrapped.obj EXCEPT !.length = n],
                   bAgain |-> FALSE] :
             n \in {length}})

\* One round of the loop of GetNextArrowArray with a batch to export, t2
\* being the layer after the batch was pulled and the cursor moved to its
\* end: [this, ret, heap, out, bAgain]
ExportCurrentBatch(t2, heap_, k, bExportFails, xp, bFilter) ==
    IF bExportFails
    THEN [this |-> t2, ret |-> ArrayRet("EIO", 0, 0),
          heap |-> heap_, out |-> ZeroStruct, bAgain |-> FALSE]
    ELSE Only({IF ~conv.ok
               THEN [this |-> t2, ret |-> ArrayRet("ENOMEM", 0, 0),
                     heap |-> conv.heap, out |-> conv.out, bAgain |-> FALSE]
               ELSE Only({FilterExportedBatch(t2, wrapped, bFilter) :
                          wrapped \in {OverrideArrowRelease(conv.heap,
                                                            conv.out)}}) :
               conv \in
                   {Only({IF t2.layout.GEOMETRY_ENCODING = "WKB"
                          THEN ConvertWKTColumns(t2, exp.heap, exp.out, 0, xp)
                          ELSE [ok |-> TRUE, heap |-> exp.heap,
                                out |-> exp.out, i |-> 0] :
                          exp \in {ExportRecordBatch(t2, heap_, k, xp)}})}})

\* One round of the loop of GetNextArrowArray: [this, ret, heap, out,
\* bAgain]
GetNextArrowArrayRound(this_, heap_, k, bExportFails, xp) ==
    LET bPull == this_.m_poBatch = 0
                 \/ this_.m_nIdxInBatch = num_rows(this_.m_poBatch)
        bFilter == this_.m_poAttrQuery # NullQuery \/ this_.m_poFilterGeom # 0
    IN Only({IF ~r.ok
             THEN [this |-> [(IF bFilter THEN InvalidateCachedBatches(r.this)
                              ELSE r.this) EXCEPT !.m_bEOF = TRUE],
                   ret |-> ArrayRet("0", 0, 0),
                   heap |-> heap_, out |-> ZeroStruct, bAgain |-> FALSE]
             ELSE Only({ExportCurrentBatch(t2, heap_, k, bExportFails, xp,
                                           bFilter) :
                        t2 \in {[r.this EXCEPT
                                   !.m_nIdxInBatch =
                                       num_rows(r.this.m_poBatch)]}}) :
             r \in {IF bPull THEN ReadNextBatch(this_)
                    ELSE [ok |-> TRUE, this |-> this_]}})

\* GetNextArrowArray returning the batch that post-filtering left with
\* zero rows instead of pulling the next one.
GetNextArrowArray_NoRepull(this_, heap_, k, bExportFails, xp) ==
    IF this_.m_bEOF
    THEN [this |-> this_, ret |-> ArrayRet("0", 0, 0),
          heap |-> heap_, out |-> ZeroStruct]
    ELSE Only({[this |-> r.this,
                ret |-> IF r.bAgain THEN ArrayRet("0", r.this.m_poBatch, 0)
                        ELSE r.ret,
                heap |-> r.heap, out |-> r.out] :
               r \in {GetNextArrowArrayRound(this_, heap_, k, bExportFails,
                                             xp)}})

\* GetNextArrowArray(stream, out_array): [this, ret, heap, out], out the
\* struct it leaves in out_array, the k-th struct of the consumer.
\* bExportFails: ExportRecordBatch reports an error (and leaves no array
\* behind).  xp: the arrays the export gives and the allocation of
\* CreateWKBArrayFromWKTArray that fails.
RECURSIVE GetNextArrowArray(_, _, _, _, _)
GetNextArrowArray(this_, heap_, k, bExportFails, xp) ==
    IF this_.m_bEOF
    THEN [this |-> this_, ret |-> ArrayRet("0", 0, 0),
          heap |-> heap_, out |-> ZeroStruct]
    ELSE Only({IF r.bAgain
               THEN GetNextArrowArray(r.this, r.heap, k, bExportFails, xp)
               ELSE [this |-> r.this, ret |-> r.ret,
                     heap |-> r.heap, out |-> r.out] :
               r \in {GetNextArrowArrayRound(this_, heap_, k, bExportFails,
                                             xp)}})

\* ------------------------------------------------ layers and their files
\* The layer definition of the cursor specifications: one integer field
\* "a" (Arrow column 0), one geometry field (Arrow column 1) and, with
\* bbox columns, four real fields xmin, ymin, xmax, ymax, either top-level
\* columns 2..5 or the members of the struct column 2.  No FID column, no
\* ignored field.
CursorLayout(enc, geomType, bboxMode, metaBBox) ==
    [FieldDefn |-> IF bboxMode = "none" THEN <<"OFTInteger">>
                   ELSE <<"OFTInteger", "OFTReal", "OFTReal", "OFTReal",
                          "OFTReal">>,
     m_poSchema |-> <<"INT32", geomType>> \o
                    (IF bboxMode = "cols"
                     THEN <<"DOUBLE", "DOUBLE", "DOUBLE", "DOUBLE">>
                     ELSE IF bboxMode = "struct" THEN <<"STRUCT">>
                     ELSE <<>>),
     m_anMapFieldIndexToArrowColumn |->
         <<<<0>>>> \o
         (IF bboxMode = "cols" THEN <<<<2>>, <<3>>, <<4>>, <<5>>>>
          ELSE IF bboxMode = "struct"
          THEN <<<<2, 0>>, <<2, 1>>, <<2, 2>>, <<2, 3>>>>
          ELSE <<>>),
     m_anMapFieldIndexToArrayIndex |-> <<>>,
     m_anRequestedColumns |-> <<>>,
     m_bIgnoredFields |-> FALSE,
     m_anMapGeomFieldIndexToArrowColumn |-> <<1>>,
     m_anMapGeomFieldIndexToArrayIndex |-> <<>>,
     m_aeGeomEncoding |-> <<enc>>,
     m_abGeomFieldIgnored |-> <<FALSE>>,
     m_iFIDArrowColumn |-> 0 - 1,
     m_nRequestedFIDColumn |-> 0 - 1,
     m_osFIDColumn |-> <<>>,
     m_iBBOXMinXField |-> IF bboxMode = "none" THEN 0 - 1 ELSE 1,
     m_iBBOXMinYField |-> IF bboxMode = "none" THEN 0 - 1 ELSE 2,
     m_iBBOXMaxXField |-> IF bboxMode = "none" THEN 0 - 1 ELSE 3,
     m_iBBOXMaxYField |-> IF bboxMode = "none" THEN 0 - 1 ELSE 4,
     USE_BBOX |-> TRUE,
     m_oMapGeometryColumns |-> <<metaBBox>>,
     CanRunNonForcedGetExtent |-> FALSE,
     GEOMETRY_ENCODING |-> IF enc = "WKT" THEN "WKB" ELSE "",
     bboxMode |-> bboxMode]

CursorLayouts ==
    {CursorLayout("WKB", "BINARY", "none", <<>>),
     CursorLayout("WKB", "BINARY", "cols", <<>>),
     CursorLayout("WKB", "LARGE_BINARY", "struct", <<>>),
     CursorLayout("GEOARROW_MULTIPOLYGON", "LIST", "none", <<>>),
     CursorLayout("WKT", "STRING", "none", <<>>)}

IntCell(v) == [isnull |-> FALSE, v |-> v]
NullCell == [isnull |-> TRUE, v |-> 0]
GeomCell(st, g) == [isnull |-> FALSE, v |-> [st |-> st, g |-> g]]
NullGeomCell == [isnull |-> TRUE, v |-> [st |-> "ok", g |-> <<>>]]

\* A row of a file written for layout lay: the bbox columns hold the
\* envelope of the row's geometry (bb = "ok"), nulls (bb = "null"), or, as a
\* struct, a null struct (bb = "structnull").
MkRow(lay, a, geom, bb) ==
    LET e == getEnvelope(geom.v.g)
        quad == IF bb = "ok"
                THEN <<IntCell(e.MinX), IntCell(e.MinY),
                       IntCell(e.MaxX), IntCell(e.MaxY)>>
                ELSE <<NullCell, NullCell, NullCell, NullCell>>
    IN [cols |-> <<a, geom>> \o
                 (IF lay.bboxMode = "cols" THEN quad
                  ELSE IF lay.bboxMode = "struct"
                  THEN <<[isnull |-> bb = "structnull", v |-> quad]>>
                  ELSE <<>>)]

\* The rows a file of the layout is made of.
FileRows(lay) ==
    LET enc == lay.m_aeGeomEncoding[1]
    IN IF enc = "WKB"
       THEN {MkRow(lay, IntCell(1), GeomCell("ok", GIn), "ok"),
             MkRow(lay, IntCell(1), GeomCell("ok", GXOnly), "ok"),
             MkRow(lay, IntCell(0), GeomCell("ok", GIn), "structnull"),
             MkRow(lay, IntCell(1), NullGeomCell, "null"),
             MkRow(lay, NullCell, GeomCell("bad", GNoParts), "null"),
             MkRow(lay, IntCell(1), GeomCell("ok", GXOnly), "structnull")}
       ELSE IF enc = "GEOARROW_MULTIPOLYGON"
       THEN {MkRow(lay, IntCell(1), GeomCell("ok", GIn), "null"),
             MkRow(lay, IntCell(1), GeomCell("ok", GHole), "null"),
             MkRow(lay, IntCell(0), GeomCell("ok", GTwo), "null"),
             MkRow(lay, IntCell(1), NullGeomCell, "null"),
             MkRow(lay, NullCell, GeomCell("ok", GNoParts), "null")}
       ELSE {MkRow(lay, IntCell(1), GeomCell("ok", GIn), "null"),
             MkRow(lay, IntCell(1), GeomCell("ok", GOut), "null"),
             MkRow(lay, IntCell(0), GeomCell("ok", GIn), "null"),
             MkRow(lay, IntCell(1), NullGeomCell, "null"),
             MkRow(lay, NullCell, GeomCell("bad", GNoParts), "null")}

\* The layer as constructed and opened on a file of layout lay.
NewLayer(lay) ==
    [layout |-> lay,
     m_bEOF |-> FALSE,
     m_nFeatureIdx |-> 0,
     m_nIdxInBatch |-> 0,
     m_iRecordBatch |-> 0 - 1,
     m_poBatch |-> 0,
     m_poBatchColumns |-> 0,
     m_poArrayWKB |-> 0,
     m_poArrayWKBLarge |-> 0,
     m_poArrayBBOX |-> 0,
     m_poArrayMinX |-> 0,
     m_poArrayMinY |-> 0,
     m_poArrayMaxX |-> 0,
     m_poArrayMaxY |-> 0,
     m_poFilterGeom |-> 0,
     m_sFilterEnvelope |-> OGREnvelope,
     m_iGeomFieldFilter |-> 0,
     m_bSpatialFilterIntersectsLayerExtent |-> TRUE,
     m_poAttrQuery |-> NullQuery,
     m_asAttributeFilterConstraints |-> <<>>,
     m_oMapExtents |-> [i \in 1..Len(lay.m_aeGeomEncoding) |->
                           [has |-> FALSE, env |-> OGREnvelope]],
     aux_pulls |-> 0,
     aux_pullOK |-> TRUE,
     aux_noMore |-> FALSE,
     aux_stale |-> FALSE]

\* The observation fields as a call starts.
Begin(this_) ==
    [this_ EXCEPT !.aux_pulls = 0, !.aux_pullOK = TRUE,
                  !.aux_noMore = FALSE, !.aux_stale = FALSE]

Void == Ret("void", 0 - 1, 0, 0, "OGRERR_NONE", OGREnvelope, 0)

\* swq nodes.
ColumnNode(iField) == [eNodeType |-> "SNT_COLUMN", field_index |-> iField]

IntegerNode(v) ==
    [eNodeType |-> "SNT_CONSTANT", field_type |-> "SWQ_INTEGER",
     int_value |-> v, float_value |-> 0, string_value |-> <<>>]

FloatNode(h) ==
    [eNodeType |-> "SNT_CONSTANT", field_type |-> "SWQ_FLOAT",
     int_value |-> 0, float_value |-> h, string_value |-> <<>>]

StringNode(s) ==
    [eNodeType |-> "SNT_CONSTANT", field_type |-> "SWQ_STRING",
     int_value |-> 0, float_value |-> 0, string_value |-> s]

OperationNode(op, sub) ==
    [eNodeType |-> "SNT_OPERATION", nOperation |-> op, papoSubExpr |-> sub]

\* The attribute filters the cursor specifications set: none, or a = 1.
CursorQueries ==
    {NullQuery, OperationNode("SWQ_EQ", <<ColumnNode(0), IntegerNode(1)>>)}

\* ------------------------------------------------------ specification
Init ==
    \E lay \in CursorLayouts : \E n \in 0..MaxRows :
    \E rows \in [1..n -> FileRows(lay)] : \E k \in 1..MaxBatchLen :
        /\ file = rows
        /\ batchLen = k
        /\ this = NewLayer(lay)
        /\ ret = Void
        /\ heap = NewHeap
        /\ out = <<>>

DoGetNextRawFeature ==
    LET r == GetNextRawFeature(Begin(this))
    IN this' = r.this /\ ret' = r.ret /\ UNCHANGED <<file, batchLen, heap, out>>

DoResetReading ==
    /\ this' = ResetReading(Begin(this))
    /\ ret' = Void
    /\ UNCHANGED <<file, batchLen, heap, out>>

DoSetSpatialFilter ==
    \E iGeomField \in 0..1 : \E poGeomIn \in 0..1 :
        /\ this' = SetSpatialFilter(Begin(this), iGeomField, poGeomIn)
        /\ ret' = Void
        /\ UNCHANGED <<file, batchLen, heap, out>>

DoSetAttributeFilter ==
    \E poQuery \in CursorQueries :
        /\ this' = SetAttributeFilter(Begin(this), poQuery)
        /\ ret' = Void
        /\ UNCHANGED <<file, batchLen, heap, out>>

DoGetExtent ==
    \E iGeomField \in 0..1 : \E bForce \in BOOLEAN :
        /\ GetExtentIsLocal(this, iGeomField, bForce)
        /\ LET r == GetExtent(Begin(this), iGeomField, bForce)
           IN this' = r.this /\ ret' = r.ret
        /\ UNCHANGED <<file, batchLen, heap, out>>

\* GetNextArrowArray called by a consumer that releases the array it is
\* handed before it does anything else.
DoGetNextArrowArray ==
    \E bExportFails \in BOOLEAN : \E bWKTFails \in BOOLEAN :
        \E r \in {GetNextArrowArray(Begin(this), heap, 1, bExportFails,
                                    StreamExport(bWKTFails))} :
           /\ this' = r.this
           /\ ret' = r.ret
           /\ heap' = IF r.out.release = "nullptr" THEN r.heap
                      ELSE CallRelease(r.heap, r.out).heap
           /\ UNCHANGED <<file, batchLen, out>>

Next ==
    \/ DoGetNextRawFeature
    \/ DoResetReading
    \/ DoSetSpatialFilter
    \/ DoSetAttributeFilter
    \/ DoGetExtent

Spec == Init /\ [][Next]_vars

\* The layer read through the Arrow stream interface as well.
NextStream ==
    \/ DoGetNextRawFeature
    \/ DoResetReading
    \/ DoSetSpatialFilter
    \/ DoSetAttributeFilter
    \/ DoGetNextArrowArray

SpecStream == Init /\ [][NextStream]_vars

\* The layer driven through the cursor operations alone.
NextCursor ==
    \/ DoGetNextRawFeature
    \/ DoResetReading
    \/ DoSetSpatialFilter

SpecCursor == Init /\ [][NextCursor]_vars



\* -------------------------------- spatial filter against the layer extent
\* Layers whose geometry metadata gives no bounding box, one of inverted
\* X bounds, one around the rows and one above the first filter geometry.
ExtentLayouts ==
    {CursorLayout(enc[1], enc[2], "none", metaBBox) :
        enc \in {<<"WKB", "BINARY">>, <<"GEOARROW_MULTIPOLYGON", "LIST">>},
        metaBBox \in {<<>>, <<2, 0, 1, 1>>, <<0, 0, 6, 6>>, <<0, 2, 6, 6>>}}

ExtentRows(lay) ==
    {MkRow(lay, IntCell(1), GeomCell("ok", GIn), "null"),
     MkRow(lay, IntCell(1), GeomCell("ok", GXOnly), "null"),
     MkRow(lay, IntCell(1), NullGeomCell, "null")}

InitSuppress ==
    \E lay \in ExtentLayouts : \E n \in 0..MaxRows :
    \E rows \in [1..n -> ExtentRows(lay)] : \E k \in 1..MaxBatchLen :
        /\ file = rows
        /\ batchLen = k
        /\ this = NewLayer(lay)
        /\ ret = Void
        /\ heap = NewHeap
        /\ out = <<>>

\* SetSpatialFilter(iGeomField, poGeomIn) with no geometry or one of two.
DoSetSpatialFilterAmong ==
    \E iGeomField \in 0..1 : \E poGeomIn \in 0..2 :
        /\ this' = SetSpatialFilter(Begin(this), iGeomField, poGeomIn)
        /\ ret' = [Void EXCEPT !.kind = "SetSpatialFilter"]
        /\ UNCHANGED <<file, batchLen, heap, out>>

NextSuppress ==
    \/ DoGetNextRawFeature
    \/ DoSetSpatialFilterAmong
    \/ DoGetExtent

SpecSuppress == InitSuppress /\ [][NextSuppress]_vars

\* ------------------------------------------- batches of any row count
\* A dataset as the batches its source delivers, file[b] the rows of the
\* b-th batch and a row TRUE when it passes the attribute constraints.  A
\* batch may have no row.
RowBatches == UNION {[1..n -> BOOLEAN] : n \in 0..MaxBatchLen}

BatchFiles == UNION {[1..n -> RowBatches] : n \in 0..MaxRows}

\* m_poBatch->num_rows() of the current batch.
NumRowsOfBatch(this_) == Len(file[this_.m_poBatch])

\* ReadNextBatch() of a concrete layer that hands each batch over as the
\* source delivers it, whatever its row count: [ok, this].
ReadNextBatchAsDelivered(this_) ==
    LET n == this_.m_iRecordBatch + 1
    IN IF n >= Len(file)
       THEN [ok |-> FALSE, this |-> [this_ EXCEPT !.m_iRecordBatch = Len(file)]]
       ELSE [ok |-> TRUE,
             this |-> [this_ EXCEPT !.m_poBatch = n + 1,
                                    !.m_poBatchColumns = n + 1,
                                    !.m_iRecordBatch = n,
                                    !.m_nIdxInBatch = 0]]

\* m_bEOF = !ReadNextBatch();
PullAsDeliveredOrEOF(this_) ==
    LET r == ReadNextBatchAsDelivered(this_)
    IN [r.this EXCEPT !.m_bEOF = ~r.ok]

\* A read of the row at m_nIdxInBatch in the arrays of the current batch:
\* aux_reads keeps the index and the row count of each read of the running
\* call.  A read at or past the row count is undefined behaviour: the call
\* is followed no further.
ReadsRow(this_) ==
    [this_ EXCEPT
       !.aux_reads = @ \cup {<<this_.m_nIdxInBatch, NumRowsOfBatch(this_)>>},
       !.aux_undefined = this_.m_nIdxInBatch >= NumRowsOfBatch(this_)]

\* m_nFeatureIdx++; m_nIdxInBatch++; and the pull at the end of the batch.
AdvanceRowAsDelivered(this_) ==
    LET t1 == [this_ EXCEPT !.m_nFeatureIdx = @ + 1, !.m_nIdxInBatch = @ + 1]
    IN IF t1.m_nIdxInBatch = NumRowsOfBatch(t1)
       THEN PullAsDeliveredOrEOF(t1) ELSE t1

\* The loop of GetNextRawFeature taken with attribute constraints:
\* SkipToNextFeatureDueToAttributeFilter reads the row.
RECURSIVE AttributeLoopAsDelivered(_)
AttributeLoopAsDelivered(this_) ==
    LET t0 == ReadsRow(this_)
    IN IF t0.aux_undefined THEN t0
       ELSE IF file[t0.m_poBatch][t0.m_nIdxInBatch + 1] THEN t0
       ELSE LET t1 == AdvanceRowAsDelivered(t0)
            IN IF t1.m_bEOF THEN t1 ELSE AttributeLoopAsDelivered(t1)

\* GetNextRawFeature() with no spatial filter: [this, ret].
GetNextRawFeatureAsDelivered(this_) ==
    IF this_.m_bEOF THEN [this |-> this_, ret |-> [kind |-> "nullptr"]]
    ELSE
    LET t1 == IF this_.m_poBatch = 0
                 \/ this_.m_nIdxInBatch = NumRowsOfBatch(this_)
              THEN PullAsDeliveredOrEOF(this_) ELSE this_
    IN IF t1.m_bEOF THEN [this |-> t1, ret |-> [kind |-> "nullptr"]]
       ELSE
       LET t2 == IF t1.bConstraints THEN AttributeLoopAsDelivered(t1) ELSE t1
       IN IF t2.aux_undefined
          THEN [this |-> t2, ret |-> [kind |-> "undefined"]]
          ELSE IF t2.m_bEOF THEN [this |-> t2, ret |-> [kind |-> "nullptr"]]
          ELSE
          LET t3 == ReadsRow(t2)
          IN IF t3.aux_undefined
             THEN [this |-> t3, ret |-> [kind |-> "undefined"]]
             ELSE [this |-> [t3 EXCEPT !.m_nFeatureIdx = @ + 1,
                                        !.m_nIdxInBatch = @ + 1],
                   ret |-> [kind |-> "feature"]]

\* The while (true) loop of the row-by-row pass of GetExtent: [this, ret].
RECURSIVE ExtentLoopAsDelivered(_)
ExtentLoopAsDelivered(this_) ==
    LET t0 == ReadsRow(this_)
        t1 == AdvanceRowAsDelivered(t0)
    IN IF t0.aux_undefined
       THEN [this |-> t0, ret |-> [kind |-> "undefined"]]
       ELSE IF t1.m_bEOF
       THEN [this |-> [ResetReading(t1) EXCEPT !.m_oMapExtents = TRUE],
             ret |-> [kind |-> "extent"]]
       ELSE ExtentLoopAsDelivered(t1)

\* GetExtent(0, psExtent, TRUE) on a WKB or GeoArrow multipolygon column
\* whose metadata gives no bounding box and whose geometries are not
\* null: [this, ret].  m_oMapExtents tells that the extent is cached.
GetExtentAsDelivered(this_) ==
    IF this_.m_oMapExtents
    THEN [this |-> this_, ret |-> [kind |-> "extent"]]
    ELSE LET t0 == ResetReading(this_)
             t1 == IF t0.m_poBatch = 0 THEN PullAsDeliveredOrEOF(t0) ELSE t0
         IN IF t1.m_bEOF THEN [this |-> t1, ret |-> [kind |-> "failure"]]
            ELSE ExtentLoopAsDelivered(t1)

\* A layer just opened on a dataset, with attribute constraints or
\* without.
InitAsDelivered ==
    \E batches \in BatchFiles : \E bConstraints \in BOOLEAN :
        /\ file = batches
        /\ batchLen = MaxBatchLen
        /\ this = [m_bEOF |-> FALSE,
                   m_nFeatureIdx |-> 0,
                   m_nIdxInBatch |-> 0,
                   m_iRecordBatch |-> 0 - 1,
                   m_poBatch |-> 0,
                   m_poBatchColumns |-> 0,
                   m_oMapExtents |-> FALSE,
                   bConstraints |-> bConstraints,
                   aux_reads |-> {},
                   aux_undefined |-> FALSE]
        /\ ret = [kind |-> "void"]
        /\ heap = NewHeap
        /\ out = <<>>

DoGetNextRawFeatureAsDelivered ==
    /\ ~this.aux_undefined
    /\ LET r == GetNextRawFeatureAsDelivered([this EXCEPT !.aux_reads = {}])
       IN this' = r.this /\ ret' = r.ret
    /\ UNCHANGED <<file, batchLen, heap, out>>

DoGetExtentAsDelivered ==
    /\ ~this.aux_undefined
    /\ LET r == GetExtentAsDelivered([this EXCEPT !.aux_reads = {}])
       IN this' = r.this /\ ret' = r.ret
    /\ UNCHANGED <<file, batchLen, heap, out>>

DoResetReadingAsDelivered ==
    /\ ~this.aux_undefined
    /\ this' = ResetReading([this EXCEPT !.aux_reads = {}])
    /\ ret' = [kind |-> "void"]
    /\ UNCHANGED <<file, batchLen, heap, out>>

NextAsDelivered ==
    \/ DoGetNextRawFeatureAsDelivered
    \/ DoGetExtentAsDelivered
    \/ DoResetReadingAsDelivered

SpecAsDelivered == InitAsDelivered /\ [][NextAsDelivered]_vars

\* ------------------------------------------- attribute filter pushdown
\* A layer with one field of each type the constraints support and no
\* geometry field: a (32-bit integer), b (64-bit integer), c (real),
\* d (string), Arrow columns 0..3.
TypedLayout ==
    [FieldDefn |-> <<"OFTInteger", "OFTInteger64", "OFTReal", "OFTString">>,
     m_poSchema |-> <<"INT32", "INT64", "DOUBLE", "STRING">>,
     m_anMapFieldIndexToArrowColumn |-> <<<<0>>, <<1>>, <<2>>, <<3>>>>,
     m_anMapFieldIndexToArrayIndex |-> <<>>,
     m_anRequestedColumns |-> <<>>,
     m_bIgnoredFields |-> FALSE,
     m_anMapGeomFieldIndexToArrowColumn |-> <<>>,
     m_anMapGeomFieldIndexToArrayIndex |-> <<>>,
     m_aeGeomEncoding |-> <<>>,
     m_abGeomFieldIgnored |-> <<>>,
     m_iFIDArrowColumn |-> 0 - 1,
     m_nRequestedFIDColumn |-> 0 - 1,
     m_osFIDColumn |-> <<>>,
     m_iBBOXMinXField |-> 0 - 1,
     m_iBBOXMinYField |-> 0 - 1,
     m_iBBOXMaxXField |-> 0 - 1,
     m_iBBOXMaxYField |-> 0 - 1,
     USE_BBOX |-> TRUE,
     m_oMapGeometryColumns |-> <<>>,
     CanRunNonForcedGetExtent |-> FALSE,
     GEOMETRY_ENCODING |-> "",
     bboxMode |-> "none"]

\* Rows of a file of TypedLayout; reals in halves, strings as character
\* codes ("a" is <<97>>).
TypedRows ==
    {[cols |-> <<IntCell(1), IntCell(1), IntCell(3), IntCell(<<97>>)>>],
     [cols |-> <<IntCell(2), IntCell(0), IntCell(2), IntCell(<<98>>)>>],
     [cols |-> <<NullCell, IntCell(2), NullCell, IntCell(<<97, 98>>)>>],
     [cols |-> <<IntCell(0), NullCell, IntCell(0), NullCell>>]}

\* Conjunctive predicates as the SQL parser and type checker hand them
\* over: a < 1.5, 1 <= a, b >= 0.5, c > 1.0, d = 'a', d < 'b', a IS NULL,
\* c IS NOT NULL AND b <> 1, a = 1 AND d >= 'a'.
TypedQueries ==
    {NullQuery,
     OperationNode("SWQ_LT", <<ColumnNode(0), FloatNode(3)>>),
     OperationNode("SWQ_LE", <<IntegerNode(1), ColumnNode(0)>>),
     OperationNode("SWQ_GE", <<ColumnNode(1), FloatNode(1)>>),
     OperationNode("SWQ_GT", <<ColumnNode(2), FloatNode(2)>>),
     OperationNode("SWQ_EQ", <<ColumnNode(3), StringNode(<<97>>)>>),
     OperationNode("SWQ_LT", <<ColumnNode(3), StringNode(<<98>>)>>),
     OperationNode("SWQ_ISNULL", <<ColumnNode(0)>>),
     OperationNode("SWQ_AND",
         <<OperationNode("SWQ_NOT",
               <<OperationNode("SWQ_ISNULL", <<ColumnNode(2)>>)>>),
           OperationNode("SWQ_NE", <<ColumnNode(1), IntegerNode(1)>>)>>),
     OperationNode("SWQ_AND",
         <<OperationNode("SWQ_EQ", <<ColumnNode(0), IntegerNode(1)>>),
           OperationNode("SWQ_GE", <<ColumnNode(3), StringNode(<<97>>)>>)>>)}

InitTyped ==
    \E n \in 0..MaxRows : \E rows \in [1..n -> TypedRows] :
    \E k \in 1..MaxBatchLen :
        /\ file = rows
        /\ batchLen = k
        /\ this = NewLayer(TypedLayout)
        /\ ret = Void
        /\ heap = NewHeap
        /\ out = <<>>

DoSetTypedAttributeFilter ==
    \E poQuery \in TypedQueries :
        /\ this' = SetAttributeFilter(Begin(this), poQuery)
        /\ ret' = Void
        /\ UNCHANGED <<file, batchLen, heap, out>>

NextTyped ==
    \/ DoGetNextRawFeature
    \/ DoResetReading
    \/ DoSetTypedAttributeFilter

SpecTyped == InitTyped /\ [][NextTyped]_vars

\* The six comparison operators.
ComparisonOps == {"SWQ_EQ", "SWQ_NE", "SWQ_LT", "SWQ_LE", "SWQ_GT", "SWQ_GE"}

\* A field of TypedLayout with a literal it is compared with, as the type
\* checker hands the pair over: a against 1 and 1.5, b against 1 and 0.5,
\* c against 1.0 and 1.5, d against 'a' and 'ab'.
TypedOperands ==
    {<<0, IntegerNode(1)>>, <<0, FloatNode(3)>>,
     <<1, IntegerNode(1)>>, <<1, FloatNode(1)>>,
     <<2, FloatNode(2)>>, <<2, FloatNode(3)>>,
     <<3, StringNode(<<97>>)>>, <<3, StringNode(<<97, 98>>)>>}

\* "constant op column" for every operator and every pair of operands.
MirroredQueries ==
    {OperationNode(op, <<p[2], ColumnNode(p[1])>>) :
        op \in ComparisonOps, p \in TypedOperands}

DoSetMirroredAttributeFilter ==
    \E poQuery \in MirroredQueries \cup {NullQuery} :
        /\ this' = SetAttributeFilter(Begin(this), poQuery)
        /\ ret' = Void
        /\ UNCHANGED <<file, batchLen, heap, out>>

NextMirrored ==
    \/ DoGetNextRawFeature
    \/ DoResetReading
    \/ DoSetMirroredAttributeFilter

SpecMirrored == InitTyped /\ [][NextMirrored]_vars

\* Predicate trees over the fields of TypedLayout.  The leaves: a = 1,
\* 1 < b, c IS NULL, NOT (d IS NULL).
TreeLeaves ==
    {OperationNode("SWQ_EQ", <<ColumnNode(0), IntegerNode(1)>>),
     OperationNode("SWQ_LT", <<IntegerNode(1), ColumnNode(1)>>),
     OperationNode("SWQ_ISNULL", <<ColumnNode(2)>>),
     OperationNode("SWQ_NOT",
         <<OperationNode("SWQ_ISNULL", <<ColumnNode(3)>>)>>)}

\* A leaf, or the negation of a leaf that is no null check.
TreeUnits ==
    TreeLeaves
    \cup {OperationNode("SWQ_NOT", <<l>>) :
            l \in {n \in TreeLeaves : n.nOperation # "SWQ_ISNULL"}}

\* x AND y, x OR y over the units.
TreePairs ==
    {OperationNode(op, <<x, y>>) :
        op \in {"SWQ_AND", "SWQ_OR"}, x \in TreeUnits, y \in TreeUnits}

\* A pair joined with a leaf on either side by AND or OR, and negated
\* pairs.
TreeTriples ==
    {OperationNode(op, <<l, t>>) :
        op \in {"SWQ_AND", "SWQ_OR"},
        l \in {n \in TreeLeaves : n.nOperation \in {"SWQ_EQ", "SWQ_ISNULL"}},
        t \in {p \in TreePairs : p.papoSubExpr[1] \in TreeLeaves}}
    \cup {OperationNode("SWQ_AND", <<t, l>>) :
        l \in {n \in TreeLeaves : n.nOperation \in {"SWQ_LT", "SWQ_NOT"}},
        t \in {p \in TreePairs : p.papoSubExpr[2] \in TreeLeaves}}
    \cup {OperationNode("SWQ_NOT", <<t>>) :
        t \in {p \in TreePairs : p.papoSubExpr[1] \in TreeLeaves
                                 /\ p.papoSubExpr[2] \in TreeLeaves}}

TreeQueries == TreeUnits \cup TreePairs \cup TreeTriples

\* A layer of TypedLayout over an empty file: what ExploreExprNode builds
\* depends on the predicate and the field definitions alone.
InitExplore ==
    /\ file = <<>>
    /\ batchLen = 1
    /\ this = NewLayer(TypedLayout)
    /\ ret = Void
    /\ heap = NewHeap
    /\ out = <<>>

DoSetTreeAttributeFilter ==
    \E poQuery \in TreeQueries :
        /\ this' = SetAttributeFilter(Begin(this), poQuery)
        /\ ret' = Void
        /\ UNCHANGED <<file, batchLen, heap, out>>

NextExplore ==
    \/ DoSetTreeAttributeFilter
    \/ DoGetNextRawFeature

SpecExplore == InitExplore /\ [][NextExplore]_vars

\* Comparisons of the FID pseudo-field of TypedLayout (field index
\* GetFieldCount() + SPF_FID) with 0, 1 and 0.5, the column on either side.
FIDQueries ==
    {OperationNode(op, <<ColumnNode(Len(TypedLayout.FieldDefn) + SPF_FID), c>>) :
        op \in ComparisonOps, c \in {IntegerNode(0), IntegerNode(1), FloatNode(1)}}
    \cup
    {OperationNode(op, <<c, ColumnNode(Len(TypedLayout.FieldDefn) + SPF_FID)>>) :
        op \in ComparisonOps, c \in {IntegerNode(0), IntegerNode(1), FloatNode(1)}}

DoSetFIDAttributeFilter ==
    \E poQuery \in FIDQueries \cup {NullQuery} :
        /\ this' = SetAttributeFilter(Begin(this), poQuery)
        /\ ret' = Void
        /\ UNCHANGED <<file, batchLen, heap, out>>

NextFID ==
    \/ DoGetNextRawFeature
    \/ DoResetReading
    \/ DoSetFIDAttributeFilter

SpecFID == InitTyped /\ [][NextFID]_vars

\* TypedLayout read with field b ignored or not (bIgnored), from a file
\* with an identifier column fid after the four fields or without one
\* (bFID).  With b ignored the batches hold the requested columns only.
ResolveLayout(bIgnored, bFID) ==
    [TypedLayout EXCEPT
       !.m_poSchema = IF bFID THEN @ \o <<"INT64">> ELSE @,
       !.m_bIgnoredFields = bIgnored,
       !.m_anRequestedColumns =
           IF ~bIgnored THEN <<>>
           ELSE IF bFID THEN <<0, 2, 3, 4>> ELSE <<0, 2, 3>>,
       !.m_anMapFieldIndexToArrayIndex =
           IF bIgnored THEN <<0, 0 - 1, 1, 2>> ELSE <<>>,
       !.m_iFIDArrowColumn = IF bFID THEN 4 ELSE 0 - 1,
       !.m_nRequestedFIDColumn = IF bIgnored /\ bFID THEN 3 ELSE 0 - 1,
       !.m_osFIDColumn = IF bFID THEN <<102, 105, 100>> ELSE <<>>]

\* The rows of a file of ResolveLayout(bIgnored, bFID).
ResolveRows(bFID) ==
    {[cols |-> <<IntCell(1), IntCell(1), IntCell(3), IntCell(<<97>>)>>
                   \o (IF bFID THEN <<IntCell(1)>> ELSE <<>>)],
     [cols |-> <<IntCell(0), NullCell, NullCell, NullCell>>
                   \o (IF bFID THEN <<IntCell(2)>> ELSE <<>>)]}

\* FID > 0, a = 1, b >= 0, c IS NULL.
ResolveLeaves ==
    {OperationNode("SWQ_GT",
         <<ColumnNode(Len(TypedLayout.FieldDefn) + SPF_FID), IntegerNode(0)>>),
     OperationNode("SWQ_EQ", <<ColumnNode(0), IntegerNode(1)>>),
     OperationNode("SWQ_GE", <<ColumnNode(1), IntegerNode(0)>>),
     OperationNode("SWQ_ISNULL", <<ColumnNode(2)>>)}

\* The conjunctions of one, two and three different leaves, in every
\* order.
ResolveQueries ==
    ResolveLeaves
    \cup {OperationNode("SWQ_AND", <<p[1], p[2]>>) :
            p \in {q \in ResolveLeaves \X ResolveLeaves : q[1] # q[2]}}
    \cup {OperationNode("SWQ_AND",
              <<OperationNode("SWQ_AND", <<p[1], p[2]>>), p[3]>>) :
            p \in {q \in ResolveLeaves \X ResolveLeaves \X ResolveLeaves :
                      q[1] # q[2] /\ q[1] # q[3] /\ q[2] # q[3]}}

InitResolve ==
    \E bIgnored \in BOOLEAN : \E bFID \in BOOLEAN :
    \E n \in 0..MaxRows : \E rows \in [1..n -> ResolveRows(bFID)] :
    \E k \in 1..MaxBatchLen :
        /\ file = rows
        /\ batchLen = k
        /\ this = NewLayer(ResolveLayout(bIgnored, bFID))
        /\ ret = Void
        /\ heap = NewHeap
        /\ out = <<>>

DoSetConjunctionAttributeFilter ==
    \E poQuery \in ResolveQueries \cup {NullQuery} :
        /\ this' = SetAttributeFilter(Begin(this), poQuery)
        /\ ret' = Void
        /\ UNCHANGED <<file, batchLen, heap, out>>

NextResolve ==
    \/ DoGetNextRawFeature
    \/ DoResetReading
    \/ DoSetConjunctionAttributeFilter

SpecResolve == InitResolve /\ [][NextResolve]_vars

\* One constraint on one field of TypedLayout: each comparison operator
\* with the column on the left (a, b against 1, c against 1.0, d against
\* 'a'), col IS NULL and NOT (col IS NULL).
NullCheckQueries ==
    {OperationNode(op, <<ColumnNode(p[1]), p[2]>>) :
        op \in ComparisonOps,
        p \in {q \in TypedOperands :
                  q[2] \in {IntegerNode(1), FloatNode(2), StringNode(<<97>>)}}}
    \cup {OperationNode("SWQ_ISNULL", <<ColumnNode(f)>>) : f \in 0..3}
    \cup {OperationNode("SWQ_NOT",
              <<OperationNode("SWQ_ISNULL", <<ColumnNode(f)>>)>>) : f \in 0..3}

DoSetNullCheckAttributeFilter ==
    \E poQuery \in NullCheckQueries \cup {NullQuery} :
        /\ this' = SetAttributeFilter(Begin(this), poQuery)
        /\ ret' = Void
        /\ UNCHANGED <<file, batchLen, heap, out>>

NextNullCheck ==
    \/ DoGetNextRawFeature
    \/ DoResetReading
    \/ DoSetNullCheckAttributeFilter

SpecNullCheck == InitTyped /\ [][NextNullCheck]_vars

\* ------------------------------------------------ GetArrowSchemaInternal
\* A struct ArrowSchema of the exported children: released (its release
\* callback has run), col the source column it describes, format, and
\* whether it carries metadata.
ExportSchema(this_) ==
    [c \in 1..Len(this_.layout.m_poSchema) |->
        [released |-> FALSE, col |-> c - 1,
         format |-> IF this_.layout.m_poSchema[c] = "BINARY" THEN "z"
                    ELSE IF this_.layout.m_poSchema[c] = "STRING" THEN "u"
                    ELSE "l",
         metadata |-> this_.layout.m_abColumnMetadata[c]]]

\* CreateSchemaForWKBGeometryColumn(poGeomFieldDefn, pszFormat,
\* pszExtensionName): a fresh schema for the geometry field, named after
\* it, with the extension name in its metadata.
CreateSchemaForWKBGeometryColumn(this_, iGeomField, pszFormat) ==
    [released |-> FALSE,
     col |-> this_.layout.m_anMapGeomFieldIndexToArrowColumn[iGeomField + 1],
     format |-> pszFormat,
     metadata |-> TRUE]

\* fieldDesc[nArrowCol] after the two loops that fill it.
FieldDesc(this_, nArrowCol) ==
    LET fmap == this_.layout.m_anMapFieldIndexToArrowColumn
        gmap == this_.layout.m_anMapGeomFieldIndexToArrowColumn
        fields == {f \in 1..Len(fmap) : fmap[f][1] = nArrowCol}
        geoms == {g \in 1..Len(gmap) : gmap[g] = nArrowCol}
    IN IF geoms # {}
       THEN [bIsRegularField |-> FALSE,
             nIdx |-> (CHOOSE g \in geoms : \A h \in geoms : h <= g) - 1]
       ELSE IF fields # {}
       THEN [bIsRegularField |-> TRUE,
             nIdx |-> (CHOOSE f \in fields : \A h \in fields : f <= h) - 1]
       ELSE [bIsRegularField |-> FALSE, nIdx |-> 0 - 1]

SchemaRet(err, n_children, children, structs) ==
    [kind |-> "schema", err |-> err, n_children |-> n_children,
     children |-> children, structs |-> structs]

\* for (; i < out_schema->n_children; ++i, ++j) children[j] = children[i];
RECURSIVE ShiftChildren(_, _, _)
ShiftChildren(children, i, j) ==
    IF i >= Len(children) THEN [children |-> children, j |-> j]
    ELSE ShiftChildren([children EXCEPT ![j + 1] = children[i + 1]],
                       i + 1, j + 1)

\* The loop over the children from column i on, j children kept so far.
\* children[k + 1] is the pointer in slot k, structs[p] the struct that
\* pointer p refers to.
RECURSIVE SchemaLoop(_, _, _, _, _, _)
SchemaLoop(this_, pszReqGeomEncoding, i, j, children, structs) ==
    IF i >= Len(children) THEN SchemaRet("0", j, children, structs)
    ELSE
    LET lay == this_.layout
        d == FieldDesc(this_, i)
        pi == children[i + 1]
        pj == children[j + 1]
    IN IF d.nIdx < 0
       THEN IF lay.m_iFIDArrowColumn = i
            THEN SchemaLoop(this_, pszReqGeomEncoding, i + 1, j + 1,
                            children, structs)
            ELSE LET s == ShiftChildren(children, i, j)
                 IN SchemaRet("EIO", s.j, s.children, structs)
       ELSE
       IF (IF d.bIsRegularField THEN lay.m_abFieldIgnored[d.nIdx + 1]
           ELSE lay.m_abGeomFieldIgnored[d.nIdx + 1])
       THEN SchemaLoop(this_, pszReqGeomEncoding, i + 1, j, children,
                       [structs EXCEPT ![pi].released = TRUE])
       ELSE
       LET enc == lay.m_aeGeomEncoding[d.nIdx + 1]
           bToWKB == ~d.bIsRegularField /\ pszReqGeomEncoding = "WKB"
           children1 == IF bToWKB /\ enc # "WKB" THEN children
                        ELSE [children EXCEPT ![j + 1] = pi]
           structs1 ==
               IF bToWKB /\ enc = "WKT"
               THEN [[structs EXCEPT ![pi].released = TRUE] EXCEPT
                       ![pj] = CreateSchemaForWKBGeometryColumn(
                                   this_, d.nIdx, "z")]
               ELSE structs
           pj1 == children1[j + 1]
           structs2 ==
               IF ~d.bIsRegularField
                  /\ pszReqGeomEncoding \in {"WKB", ""}
                  /\ enc = "WKB"
                  /\ ~structs1[pj1].metadata
                  /\ structs1[pj1].format \in {"z", "Z"}
               THEN [[structs1 EXCEPT ![pi].released = TRUE] EXCEPT
                       ![pj1] = CreateSchemaForWKBGeometryColumn(
                                    this_, d.nIdx, structs1[pj1].format)]
               ELSE structs1
       IN SchemaLoop(this_, pszReqGeomEncoding, i + 1, j + 1, children1,
                     structs2)

\* bExportFails: arrow::ExportSchema reports an error.
GetArrowSchemaInternal(this_, pszReqGeomEncoding, bExportFails) ==
    IF bExportFails THEN SchemaRet("EIO", 0, <<>>, <<>>)
    ELSE SchemaLoop(this_, pszReqGeomEncoding, 0, 0,
                    [c \in 1..Len(this_.layout.m_poSchema) |-> c],
                    ExportSchema(this_))

\* The columns of the files of the schema specification: an attribute
\* field, a WKB or WKT geometry field, each kept or ignored, or the FID
\* column.
ColumnKinds ==
    {[kind |-> "field", ignored |-> FALSE, enc |-> "", type |-> "INT32"],
     [kind |-> "field", ignored |-> TRUE, enc |-> "", type |-> "INT32"],
     [kind |-> "geom", ignored |-> FALSE, enc |-> "WKB", type |-> "BINARY"],
     [kind |-> "geom", ignored |-> TRUE, enc |-> "WKB", type |-> "BINARY"],
     [kind |-> "geom", ignored |-> FALSE, enc |-> "WKT", type |-> "STRING"],
     [kind |-> "fid", ignored |-> FALSE, enc |-> "", type |-> "INT64"]}

\* The zero-based indexes of the columns of cols of the given kind, in
\* order, from column c (one-based) on.
RECURSIVE ColumnsOfKind(_, _, _)
ColumnsOfKind(cols, kind, c) ==
    IF c > Len(cols) THEN <<>>
    ELSE (IF cols[c].kind = kind THEN <<c - 1>> ELSE <<>>)
             \o ColumnsOfKind(cols, kind, c + 1)

\* The layer opened on a file with the columns cols.
SchemaLayout(cols) ==
    LET f == ColumnsOfKind(cols, "field", 1)
        g == ColumnsOfKind(cols, "geom", 1)
        fid == ColumnsOfKind(cols, "fid", 1)
    IN [FieldDefn |-> [k \in 1..Len(f) |-> "OFTInteger"],
        m_poSchema |-> [c \in 1..Len(cols) |-> cols[c].type],
        m_abColumnMetadata |-> [c \in 1..Len(cols) |-> FALSE],
        m_anMapFieldIndexToArrowColumn |-> [k \in 1..Len(f) |-> <<f[k]>>],
        m_abFieldIgnored |-> [k \in 1..Len(f) |-> cols[f[k] + 1].ignored],
        m_anMapFieldIndexToArrayIndex |-> <<>>,
        m_anRequestedColumns |-> <<>>,
        m_bIgnoredFields |-> \E c \in 1..Len(cols) : cols[c].ignored,
        m_anMapGeomFieldIndexToArrowColumn |-> g,
        m_anMapGeomFieldIndexToArrayIndex |-> <<>>,
        m_aeGeomEncoding |-> [k \in 1..Len(g) |-> cols[g[k] + 1].enc],
        m_abGeomFieldIgnored |-> [k \in 1..Len(g) |-> cols[g[k] + 1].ignored],
        m_iFIDArrowColumn |-> IF fid = <<>> THEN 0 - 1 ELSE fid[1],
        m_nRequestedFIDColumn |-> 0 - 1,
        m_osFIDColumn |-> IF fid = <<>> THEN <<>> ELSE <<102>>,
        m_iBBOXMinXField |-> 0 - 1,
        m_iBBOXMinYField |-> 0 - 1,
        m_iBBOXMaxXField |-> 0 - 1,
        m_iBBOXMaxYField |-> 0 - 1,
        USE_BBOX |-> TRUE,
        m_oMapGeometryColumns |-> [k \in 1..Len(g) |-> <<>>],
        CanRunNonForcedGetExtent |-> FALSE,
        GEOMETRY_ENCODING |-> "",
        bboxMode |-> "none"]

InitSchema ==
    \E n \in 1..MaxColumns : \E cols \in [1..n -> ColumnKinds] :
        /\ Cardinality({c \in 1..n : cols[c].kind = "fid"}) <= 1
        /\ file = <<>>
        /\ batchLen = 1
        /\ this = NewLayer(SchemaLayout(cols))
        /\ ret = Void
        /\ heap = NewHeap
        /\ out = <<>>

DoGetArrowSchemaInternal ==
    \E pszReqGeomEncoding \in {"", "WKB"} : \E bExportFails \in BOOLEAN :
        /\ ret' = GetArrowSchemaInternal(this, pszReqGeomEncoding, bExportFails)
        /\ UNCHANGED <<file, batchLen, this, heap, out>>

NextSchema == DoGetArrowSchemaInternal

SpecSchema == InitSchema /\ [][NextSchema]_vars

\* ------------------------------------------- a string field and a point
\* A layer with one string field "name" (Arrow column 0) and one WKB
\* geometry field (Arrow column 1), no bbox column, no FID column.
NamedLayout ==
    [CursorLayout("WKB", "BINARY", "none", <<>>) EXCEPT
        !.FieldDefn = <<"OFTString">>,
        !.m_poSchema = <<"STRING", "BINARY">>]

\* The name values of the three-row batch: 'a', null, 'c'.
ScenarioNames ==
    <<IntCell(<<97>>), [isnull |-> TRUE, v |-> <<>>], IntCell(<<99>>)>>

\* The point the row at one-based position i of a file carries.
PointOf(i) == << << << <<i, i>> >> >> >>

\* The file whose rows hold the given name cells, each with its own point.
NamedFile(names) ==
    [i \in 1..Len(names) |->
        [cols |-> <<names[i], GeomCell("ok", PointOf(i))>>]]

\* name != 'a'
NameNotA == OperationNode("SWQ_NE", <<ColumnNode(0), StringNode(<<97>>)>>)

\* The attribute filters set on the layer: none, name != 'a', name = 'c',
\* name IS NOT NULL AND 'a' < name.
NamedQueries ==
    {NullQuery,
     NameNotA,
     OperationNode("SWQ_EQ", <<ColumnNode(0), StringNode(<<99>>)>>),
     OperationNode("SWQ_AND",
         <<OperationNode("SWQ_NOT",
               <<OperationNode("SWQ_ISNULL", <<ColumnNode(0)>>)>>),
           OperationNode("SWQ_LT", <<StringNode(<<97>>), ColumnNode(0)>>)>>)}

InitNamed ==
    \E names \in [1..Len(ScenarioNames) ->
                     {ScenarioNames[i] : i \in 1..Len(ScenarioNames)}] :
    \E k \in 1..Len(ScenarioNames) :
        /\ file = NamedFile(names)
        /\ batchLen = k
        /\ this = NewLayer(NamedLayout)
        /\ ret = Void
        /\ heap = NewHeap
        /\ out = <<>>

DoSetNamedAttributeFilter ==
    \E poQuery \in NamedQueries :
        /\ this' = SetAttributeFilter(Begin(this), poQuery)
        /\ ret' = Void
        /\ UNCHANGED <<file, batchLen, heap, out>>

NextNamed ==
    \/ DoGetNextRawFeature
    \/ DoResetReading
    \/ DoSetNamedAttributeFilter

SpecNamed == InitNamed /\ [][NextNamed]_vars

\* ------------------------------------------------------ exported arrays
\* The largest offset of the arrays a batch source hands out, and the
\* number of structs ArrowArray a consumer holds at a time.
MaxOffset == 1
MaxHeld == 2

\* The slices a batch source gives its arrays: see ExportedChild.
ExportSlices ==
    {[nArrayOffset |-> 0, bLead |-> TRUE, bBitmap |-> b, bCount |-> TRUE] :
        b \in BOOLEAN}
    \cup {[nArrayOffset |-> n, bLead |-> l, bBitmap |-> b, bCount |-> c] :
             n \in 1..MaxOffset, l \in BOOLEAN, b \in BOOLEAN,
             c \in BOOLEAN}

\* A layer with one integer field "a" (Arrow column 0) and two geometry
\* fields (Arrow columns 1 and 2) of encodings enc0 and enc1, read with
\* the first geometry field ignored or not, through a stream whose
\* GEOMETRY_ENCODING option is option, from a source of slice s.
ExportLayout(enc0, enc1, bIgnoreFirst, option, s) ==
    [CursorLayout(enc0, "STRING", "none", <<>>) EXCEPT
       !.m_poSchema = <<"INT32",
                        IF enc0 = "WKT" THEN "STRING" ELSE "BINARY",
                        IF enc1 = "WKT" THEN "LARGE_STRING" ELSE "BINARY">>,
       !.m_anMapGeomFieldIndexToArrowColumn = <<1, 2>>,
       !.m_aeGeomEncoding = <<enc0, enc1>>,
       !.m_abGeomFieldIgnored = <<bIgnoreFirst, FALSE>>,
       !.m_bIgnoredFields = bIgnoreFirst,
       !.m_anRequestedColumns = IF bIgnoreFirst THEN <<0, 2>> ELSE <<>>,
       !.m_anMapFieldIndexToArrayIndex =
           IF bIgnoreFirst THEN <<0>> ELSE <<>>,
       !.m_anMapGeomFieldIndexToArrayIndex =
           IF bIgnoreFirst THEN <<0 - 1, 1>> ELSE <<>>,
       !.m_oMapGeometryColumns = <<<<>>, <<>>>>,
       !.GEOMETRY_ENCODING = option] @@ s

ExportLayouts ==
    {ExportLayout("WKT", "WKT", FALSE, "WKB", s) : s \in ExportSlices}
    \cup {ExportLayout("WKB", "WKT", FALSE, "WKB", s) : s \in ExportSlices}
    \cup {ExportLayout("WKT", "WKT", TRUE, "WKB", s) : s \in ExportSlices}

\* The rows of the files of these layouts.
ExportRows ==
    {[cols |-> <<IntCell(1), GeomCell("ok", GIn), GeomCell("ok", GOut)>>],
     [cols |-> <<NullCell, NullGeomCell, GeomCell("ok", GIn)>>],
     [cols |-> <<IntCell(1), GeomCell("ok", GOut), NullGeomCell>>]}

\* The allocations of CreateWKBArrayFromWKTArray that can fail.
Failures ==
    {[at |-> a, row |-> 0] : a \in {"validity", "offsets", "data"}}
    \cup {[at |-> "translate", row |-> i] : i \in 0..(MaxBatchLen - 1)}

\* What can go wrong in one call of GetNextArrowArray: nothing, the
\* export, or an allocation in the conversion of one geometry field.
CallFailures ==
    {[bExportFails |-> b, iFailField |-> 0 - 1, fail |-> NoFailure] :
        b \in BOOLEAN}
    \cup {[bExportFails |-> FALSE, iFailField |-> i, fail |-> f] :
             i \in 0..1, f \in Failures}

\* A consumer with one struct ArrowArray.
InitExport ==
    \E lay \in ExportLayouts : \E n \in 0..MaxRows :
    \E rows \in [1..n -> ExportRows] : \E k \in 1..MaxBatchLen :
        /\ file = rows
        /\ batchLen = k
        /\ this = NewLayer(lay)
        /\ ret = Void
        /\ heap = NewHeap
        /\ out = <<ZeroStruct>>

\* A consumer with MaxHeld structs, on files of one kind of row.
InitHeld ==
    \E n \in 0..MaxRows : \E k \in 1..MaxBatchLen :
        /\ file = [i \in 1..n |->
                      [cols |-> <<IntCell(1), GeomCell("ok", GIn),
                                  GeomCell("ok", GOut)>>]]
        /\ batchLen = k
        /\ this = NewLayer(ExportLayout(
                               "WKT", "WKB", FALSE, "WKB",
                               [nArrayOffset |-> 0, bLead |-> TRUE,
                                bBitmap |-> FALSE, bCount |-> TRUE]))
        /\ ret = Void
        /\ heap = NewHeap
        /\ out = [k2 \in 1..MaxHeld |-> ZeroStruct]

\* GetNextArrowArray(stream, &out[k]) on a struct the consumer holds no
\* array in.  A call that returns EIO leaves the struct as it was.
DoGetNextArrowArrayInto ==
    \E k \in DOMAIN out : \E f \in CallFailures :
        /\ heap.open
        /\ out[k].release = "nullptr"
        /\ \E r \in {GetNextArrowArray(
                        Begin(this), heap, k, f.bExportFails,
                        [nOffset |-> this.layout.nArrayOffset,
                         bLead |-> this.layout.bLead,
                         bBitmap |-> this.layout.bBitmap,
                         bCount |-> this.layout.bCount,
                         iFailField |-> f.iFailField,
                         fail |-> f.fail])} :
              /\ this' = r.this
              /\ ret' = r.ret
              /\ heap' = r.heap
              /\ out' = IF r.ret.err = "EIO" THEN out
                        ELSE [out EXCEPT ![k] = r.out]
        /\ UNCHANGED <<file, batchLen>>

\* out[k].release(&out[k]) by the consumer.
DoReleaseArray ==
    \E k \in DOMAIN out :
        /\ out[k].release # "nullptr"
        /\ \E r \in {CallRelease(heap, out[k])} :
              /\ heap' = r.heap
              /\ out' = [out EXCEPT ![k] = r.obj]
        /\ ret' = Void
        /\ UNCHANGED <<file, batchLen, this>>

\* The dataset and its layer are closed; arrays handed out stay with the
\* consumer.
DoCloseDataset ==
    /\ heap.open
    /\ heap' = CloseDataset(heap)
    /\ ret' = Void
    /\ UNCHANGED <<file, batchLen, this, out>>

DoResetReadingOpen == heap.open /\ DoResetReading

NextExport ==
    \/ DoGetNextArrowArrayInto
    \/ DoReleaseArray
    \/ DoResetReadingOpen

SpecExport == InitExport /\ [][NextExport]_vars

NextHeld ==
    \/ DoGetNextArrowArrayInto
    \/ DoReleaseArray
    \/ DoResetReadingOpen
    \/ DoCloseDataset

SpecHeld == InitHeld /\ [][NextHeld]_vars

\* ---------------------------------------------------------- type mapper
\* An arrow::DataType: its id and, for the types that have them, the byte
\* width, the precision and scale, the timezone, the value (or item) type
\* and the key type, each of the last two a sequence of one type or none.
ArrowType(id) ==
    [id |-> id, byte_width |-> 0, precision |-> 0, scale |-> 0,
     timezone |-> "", value_type |-> <<>>, key_type |-> <<>>]

ListOf(id, valueType) == [ArrowType(id) EXCEPT !.value_type = <<valueType>>]

MapOf(keyType, itemType) ==
    [ArrowType("MAP") EXCEPT !.key_type = <<keyType>>,
                             !.value_type = <<itemType>>]

\* IsIntegerArrowType(typeId)
IsIntegerArrowType(typeId) ==
    typeId \in {"INT8", "UINT8", "INT16", "UINT16", "INT32", "UINT32",
                "INT64", "UINT64"}

\* IsHandledListOrMapType(valueType), with IsHandledMapType and
\* IsHandledListType in their places.
RECURSIVE IsHandledListOrMapType(_)
IsHandledListOrMapType(valueType) ==
    LET itemTypeId == valueType.id
    IN IF itemTypeId = "BOOL" \/ IsIntegerArrowType(itemTypeId)
          \/ itemTypeId \in {"HALF_FLOAT", "FLOAT", "DOUBLE", "DECIMAL128",
                             "DECIMAL256", "STRING", "LARGE_STRING",
                             "STRUCT"}
       THEN TRUE
       ELSE IF itemTypeId = "MAP"
       THEN valueType.key_type[1].id = "STRING"
            /\ IsHandledListOrMapType(valueType.value_type[1])
       ELSE IF itemTypeId \in {"LIST", "LARGE_LIST", "FIXED_SIZE_LIST"}
       THEN IsHandledListOrMapType(valueType.value_type[1])
       ELSE FALSE

\* IsHandledListType(listType)
IsHandledListType(listType) ==
    IsHandledListOrMapType(listType.value_type[1])

\* IsHandledMapType(mapType)
IsHandledMapType(mapType) ==
    mapType.key_type[1].id = "STRING"
    /\ IsHandledListOrMapType(mapType.value_type[1])

\* OGRTimezoneToTZFlag(osTZ, false): 0 is OGR_TZFLAG_UNKNOWN, 100
\* OGR_TZFLAG_UTC, 104 the flag of +01:00.
OGR_TZFLAG_UNKNOWN == 0
OGR_TZFLAG_UTC == 100
OGRTimezoneToTZFlag(osTZ) ==
    IF osTZ = "UTC" THEN OGR_TZFLAG_UTC
    ELSE IF osTZ = "+01:00" THEN 104
    ELSE OGR_TZFLAG_UNKNOWN

\* OGRFieldDefn oField(field->name().c_str(), OFTString)
OGRFieldDefn(name) ==
    [name |-> name, type |-> "OFTString", subtype |-> "OFSTNone",
     width |-> 0, precision |-> 0, tzflag |-> OGR_TZFLAG_UNKNOWN,
     nullable |-> TRUE, domain |-> FALSE, alternativeName |-> "",
     comment |-> ""]

\* The switch of MapArrowTypeToOGR on a list's value type:
\* [bTypeOK, eType, eSubType]
MapListValueType(listType, eType, eSubType) ==
    LET id == listType.value_type[1].id
    IN IF id = "BOOL"
       THEN [bTypeOK |-> TRUE, eType |-> "OFTIntegerList",
             eSubType |-> "OFSTBoolean"]
       ELSE IF id \in {"UINT8", "INT8", "UINT16", "INT16", "INT32"}
       THEN [bTypeOK |-> TRUE, eType |-> "OFTIntegerList",
             eSubType |-> eSubType]
       ELSE IF id \in {"UINT32", "INT64"}
       THEN [bTypeOK |-> TRUE, eType |-> "OFTInteger64List",
             eSubType |-> eSubType]
       ELSE IF id = "UINT64"
       THEN [bTypeOK |-> TRUE, eType |-> "OFTRealList",
             eSubType |-> eSubType]
       ELSE IF id \in {"HALF_FLOAT", "FLOAT"}
       THEN [bTypeOK |-> TRUE, eType |-> "OFTRealList",
             eSubType |-> "OFSTFloat32"]
       ELSE IF id \in {"DOUBLE", "DECIMAL128", "DECIMAL256"}
       THEN [bTypeOK |-> TRUE, eType |-> "OFTRealList",
             eSubType |-> eSubType]
       ELSE IF id \in {"STRING", "LARGE_STRING"}
       THEN [bTypeOK |-> TRUE, eType |-> "OFTStringList",
             eSubType |-> eSubType]
       ELSE IF IsHandledListType(listType)
       THEN [bTypeOK |-> TRUE, eType |-> "OFTString",
             eSubType |-> "OFSTJSON"]
       ELSE [bTypeOK |-> FALSE, eType |-> eType, eSubType |-> eSubType]

\* The switch of MapArrowTypeToOGR dropping a field of null type.
MapNullType_Dropped(oField, eType, eSubType) ==
    [bTypeOK |-> FALSE, eType |-> eType, eSubType |-> eSubType,
     oField |-> oField]

\* case arrow::Type::NA of the switch of MapArrowTypeToOGR: the field
\* keeps the type its caller gave it.
MapNullType(oField, eType, eSubType) ==
    [bTypeOK |-> TRUE, eType |-> eType, eSubType |-> eSubType,
     oField |-> oField]

\* The switch of MapArrowTypeToOGR on type->id():
\* [bTypeOK, eType, eSubType, oField]
MapTypeId(type, oField, eType, eSubType) ==
    LET Plain(t) == [bTypeOK |-> TRUE, eType |-> t, eSubType |-> eSubType,
                     oField |-> oField]
        Sub(t, s) == [bTypeOK |-> TRUE, eType |-> t, eSubType |-> s,
                      oField |-> oField]
        id == type.id
    IN CASE id = "NA" -> MapNullType(oField, eType, eSubType)
         [] id = "BOOL" -> Sub("OFTInteger", "OFSTBoolean")
         [] id \in {"UINT8", "INT8", "UINT16"} -> Plain("OFTInteger")
         [] id = "INT16" -> Sub("OFTInteger", "OFSTInt16")
         [] id = "UINT32" -> Plain("OFTInteger64")
         [] id = "INT32" -> Plain("OFTInteger")
         [] id = "UINT64" -> Plain("OFTReal")
         [] id = "INT64" -> Plain("OFTInteger64")
         [] id \in {"HALF_FLOAT", "FLOAT"} -> Sub("OFTReal", "OFSTFloat32")
         [] id = "DOUBLE" -> Plain("OFTReal")
         [] id \in {"STRING", "LARGE_STRING"} -> Plain("OFTString")
         [] id \in {"BINARY", "LARGE_BINARY"} -> Plain("OFTBinary")
         [] id = "FIXED_SIZE_BINARY" ->
                [Plain("OFTBinary") EXCEPT
                   !.oField.width = type.byte_width]
         [] id \in {"DATE32", "DATE64"} -> Plain("OFTDate")
         [] id = "TIMESTAMP" ->
                LET nTZFlag == OGRTimezoneToTZFlag(type.timezone)
                IN [Plain("OFTDateTime") EXCEPT
                      !.oField.tzflag =
                          IF nTZFlag = OGR_TZFLAG_UNKNOWN
                             /\ type.timezone # ""
                          THEN OGR_TZFLAG_UTC ELSE nTZFlag]
         [] id = "TIME32" -> Plain("OFTTime")
         [] id = "TIME64" -> Plain("OFTInteger64")
         [] id \in {"DECIMAL128", "DECIMAL256"} ->
                [Plain("OFTReal") EXCEPT
                   !.oField.width = type.precision,
                   !.oField.precision = type.scale]
         [] id \in {"LIST", "FIXED_SIZE_LIST"} ->
                LET l == MapListValueType(type, eType, eSubType)
                IN [bTypeOK |-> l.bTypeOK, eType |-> l.eType,
                    eSubType |-> l.eSubType, oField |-> oField]
         [] id = "MAP" ->
                IF IsHandledMapType(type) THEN Sub("OFTString", "OFSTJSON")
                ELSE [Plain(eType) EXCEPT !.bTypeOK = FALSE]
         [] OTHER -> [Plain(eType) EXCEPT !.bTypeOK = FALSE]

\* The gdal:schema definition found for a field name: a sequence of one
\* definition, or none.
FindFieldDefn(oMapFieldNameToGDALSchemaFieldDefn, name) ==
    LET s == {d \in oMapFieldNameToGDALSchemaFieldDefn : d.name = name}
    IN IF s = {} THEN <<>> ELSE <<CHOOSE d \in s : TRUE>>

\* The merge of a gdal:schema definition with the subtype of its own in
\* every case, the inferred subtype included.
MergeGDALSchemaFieldDefn_OverrideWins(oField, eType, eSubType, oIter) ==
    IF oIter = <<>> THEN [oField EXCEPT !.type = eType, !.subtype = eSubType]
    ELSE [oField EXCEPT
            !.type = eType,
            !.subtype = IF oIter[1].type = eType
                        THEN oIter[1].subtype ELSE eSubType,
            !.width = IF oIter[1].width > 0 THEN oIter[1].width ELSE @,
            !.precision = IF oIter[1].precision > 0
                          THEN oIter[1].precision ELSE @,
            !.alternativeName = IF oIter[1].alternativeName # ""
                                THEN oIter[1].alternativeName ELSE @,
            !.comment = IF oIter[1].comment # ""
                        THEN oIter[1].comment ELSE @]

\* The part of MapArrowTypeToOGR that merges the gdal:schema definition
\* oIter found for the field (a sequence of one definition, or none) into
\* oField, of the inferred type eType and subtype eSubType.
MergeGDALSchemaFieldDefn(oField, eType, eSubType, oIter) ==
    IF oIter = <<>> THEN [oField EXCEPT !.type = eType, !.subtype = eSubType]
    ELSE [oField EXCEPT
            !.type = eType,
            !.subtype = IF oIter[1].type = eType /\ eSubType = "OFSTNone"
                        THEN oIter[1].subtype ELSE eSubType,
            !.width = IF oIter[1].width > 0 THEN oIter[1].width ELSE @,
            !.precision = IF oIter[1].precision > 0
                          THEN oIter[1].precision ELSE @,
            !.alternativeName = IF oIter[1].alternativeName # ""
                                THEN oIter[1].alternativeName ELSE @,
            !.comment = IF oIter[1].comment # ""
                        THEN oIter[1].comment ELSE @]

\* MapArrowTypeToOGR(type, field, oField, eType, eSubType, path,
\* oMapFieldNameToGDALSchemaFieldDefn): [this, bTypeOK].  this_ is the
\* layer under construction: m_poFeatureDefn the fields added so far,
\* m_anMapFieldIndexToArrowColumn their column paths.  type is not a
\* struct: CreateFieldFromSchema takes structs apart itself.
MapArrowTypeToOGR(this_, type, field, oField, eType, eSubType, path, oMapFieldNameToGDALSchemaFieldDefn) ==
    LET m == MapTypeId(type, oField, eType, eSubType)
        oIter == FindFieldDefn(oMapFieldNameToGDALSchemaFieldDefn,
                               field.name)
        f2 == MergeGDALSchemaFieldDefn(m.oField, m.eType, m.eSubType, oIter)
        f3 == [f2 EXCEPT !.nullable = field.nullable]
        n == Len(this_.m_poFeatureDefn)
        bDouble == type.id = "DOUBLE"
    IN IF m.bTypeOK
       THEN [this |->
                [this_ EXCEPT
                   !.m_iBBOXMinXField =
                       IF bDouble /\ field.name = "bbox.minx" THEN n ELSE @,
                   !.m_iBBOXMinYField =
                       IF bDouble /\ field.name = "bbox.miny" THEN n ELSE @,
                   !.m_iBBOXMaxXField =
                       IF bDouble /\ field.name = "bbox.maxx" THEN n ELSE @,
                   !.m_iBBOXMaxYField =
                       IF bDouble /\ field.name = "bbox.maxy" THEN n ELSE @,
                   !.m_poFeatureDefn = Append(@, f3),
                   !.m_anMapFieldIndexToArrowColumn = Append(@, path)],
             bTypeOK |-> TRUE]
       ELSE [this |-> this_, bTypeOK |-> FALSE]

\* CreateFieldFromSchema(field, path, oMapFieldNameToGDALSchemaFieldDefn)
\* and its loop over the subfields of a struct from subfield j on: the
\* layer afterwards.  A field is [name, type, nullable, children], children
\* the flattened subfields of a struct; the index type of a dictionary is
\* its key_type, the type of its values its value_type.
RECURSIVE CreateFieldFromSchema(_, _, _, _)
RECURSIVE CreateFieldsFromSubfields(_, _, _, _, _)
CreateFieldFromSchema(this_, field, path, oMapFieldNameToGDALSchemaFieldDefn) ==
    LET bDictionary == field.type.id = "DICTIONARY" /\ Len(path) = 1
        bDomain == IF bDictionary
                   THEN field.type.value_type[1].id = "STRING"
                        /\ IsIntegerArrowType(field.type.key_type[1].id)
                   ELSE FALSE
        type == IF bDomain THEN field.type.key_type[1] ELSE field.type
        oField == [OGRFieldDefn(field.name) EXCEPT !.domain = bDomain]
    IN IF type.id = "STRUCT"
       THEN CreateFieldsFromSubfields(
                this_, field.children, path, 0,
                oMapFieldNameToGDALSchemaFieldDefn)
       ELSE IF ~bDictionary \/ bDomain
       THEN MapArrowTypeToOGR(this_, type, field, oField, "OFTString",
                              "OFSTNone", path,
                              oMapFieldNameToGDALSchemaFieldDefn).this
       ELSE this_

\* The loop over the subfields of a struct with the path of the first
\* subfield for each of them.
RECURSIVE CreateFieldsFromSubfields_PathOfFirst(_, _, _, _, _)
CreateFieldsFromSubfields_PathOfFirst(this_, subfields, path, j, oMapFieldNameToGDALSchemaFieldDefn) ==
    IF j >= Len(subfields) THEN this_
    ELSE CreateFieldsFromSubfields_PathOfFirst(
             CreateFieldFromSchema(this_, subfields[j + 1], Append(path, 0),
                                   oMapFieldNameToGDALSchemaFieldDefn),
             subfields, path, j + 1, oMapFieldNameToGDALSchemaFieldDefn)

CreateFieldsFromSubfields(this_, subfields, path, j, oMapFieldNameToGDALSchemaFieldDefn) ==
    IF j >= Len(subfields) THEN this_
    ELSE CreateFieldsFromSubfields(
             CreateFieldFromSchema(this_, subfields[j + 1], Append(path, j),
                                   oMapFieldNameToGDALSchemaFieldDefn),
             subfields, path, j + 1, oMapFieldNameToGDALSchemaFieldDefn)

\* The Arrow types of the fields of the schemas mapped.
ValueTypes ==
    {ArrowType(id) : id \in {"BOOL", "INT16", "UINT32", "UINT64", "FLOAT",
                              "DOUBLE", "DECIMAL128", "STRING", "BINARY",
                              "STRUCT"}}
    \cup {ListOf("LIST", ArrowType("INT32")),
          ListOf("LARGE_LIST", ArrowType("BINARY")),
          MapOf(ArrowType("STRING"), ArrowType("INT32"))}

ArrowTypes ==
    {ArrowType(id) :
        id \in {"NA", "BOOL", "UINT8", "INT8", "UINT16", "INT16", "UINT32",
                "INT32", "UINT64", "INT64", "HALF_FLOAT", "FLOAT", "DOUBLE",
                "STRING", "LARGE_STRING", "BINARY", "LARGE_BINARY",
                "DATE32", "DATE64", "TIME32", "TIME64",
                "INTERVAL_MONTHS", "INTERVAL_DAY_TIME", "SPARSE_UNION",
                "DENSE_UNION", "EXTENSION", "DURATION", "LARGE_LIST",
                "INTERVAL_MONTH_DAY_NANO", "RUN_END_ENCODED", "MAX_ID"}}
    \cup {[ArrowType("FIXED_SIZE_BINARY") EXCEPT !.byte_width = w] :
             w \in {4, 16}}
    \cup {[ArrowType("TIMESTAMP") EXCEPT !.timezone = tz] :
             tz \in {"", "UTC", "+01:00", "Mars/Olympus"}}
    \cup {[ArrowType(id) EXCEPT !.precision = 9, !.scale = s] :
             id \in {"DECIMAL128", "DECIMAL256"}, s \in {0, 2}}
    \cup {ListOf(id, v) : id \in {"LIST", "FIXED_SIZE_LIST"},
                          v \in ValueTypes}
    \cup {MapOf(ArrowType(k), v) : k \in {"STRING", "INT32"},
                                   v \in {ArrowType("DOUBLE"),
                                          ArrowType("BINARY")}}
    \cup {[ArrowType("DICTIONARY") EXCEPT
             !.key_type = <<ArrowType(k)>>, !.value_type = <<ArrowType(v)>>] :
             k \in {"INT8", "UINT32"}, v \in {"STRING", "INT32"}}

\* The fields of the schemas mapped: one of each type, and a struct of two
\* subfields.
SchemaFields ==
    {[name |-> n, type |-> t, nullable |-> b, children |-> <<>>] :
        n \in {"a", "bbox.minx", "bbox.miny", "bbox.maxx", "bbox.maxy"},
        t \in ArrowTypes, b \in BOOLEAN}
    \cup {[name |-> "a", type |-> ArrowType("STRUCT"), nullable |-> TRUE,
           children |->
               <<[name |-> "a.x", type |-> t, nullable |-> TRUE,
                  children |-> <<>>],
                 [name |-> "a.y", type |-> ArrowType("INT32"),
                  nullable |-> TRUE, children |-> <<>>]>>] :
             t \in {ArrowType("NA"), ArrowType("DURATION"),
                    ArrowType("INT16"),
                    [ArrowType("DICTIONARY") EXCEPT
                       !.key_type = <<ArrowType("INT8")>>,
                       !.value_type = <<ArrowType("STRING")>>]}}

\* The field definitions the gdal:schema metadata gives: none, or one for
\* the field "a".
GDALSchemas ==
    {{}}
    \cup {{[OGRFieldDefn("a") EXCEPT !.type = t, !.subtype = s,
                                     !.width = w, !.precision = w \div 2,
                                     !.alternativeName = alt,
                                     !.comment = c]} :
             t \in {"OFTInteger", "OFTReal", "OFTString"},
             s \in {"OFSTNone", "OFSTBoolean"}, w \in {0, 5},
             alt \in {"", "alias"}, c \in {"", "note"}}

\* The layer while its constructor builds the feature definition, n
\* fields mapped so far, and the field of the schema that comes next.
InitMapper ==
    \E field \in SchemaFields : \E oMap \in GDALSchemas :
    \E n \in 0..MaxColumns :
        /\ file = <<field>>
        /\ batchLen = 1
        /\ this = [m_poFeatureDefn |->
                      [i \in 1..n |-> [OGRFieldDefn("f") EXCEPT
                                         !.type = "OFTInteger"]],
                  m_anMapFieldIndexToArrowColumn |->
                      [i \in 1..n |-> <<i - 1>>],
                  m_iBBOXMinXField |-> 0 - 1,
                  m_iBBOXMinYField |-> 0 - 1,
                  m_iBBOXMaxXField |-> 0 - 1,
                  m_iBBOXMaxYField |-> 0 - 1,
                  oMapFieldNameToGDALSchemaFieldDefn |-> oMap,
                  aux_mapped |-> 0]
        /\ ret = Void
        /\ heap = NewHeap
        /\ out = <<>>

\* CreateFieldFromSchema on the next field of the schema.
DoCreateFieldFromSchema ==
    /\ this.aux_mapped < Len(file)
    /\ this' = [CreateFieldFromSchema(
                    this, file[this.aux_mapped + 1],
                    <<Len(this.m_poFeatureDefn)>>,
                    this.oMapFieldNameToGDALSchemaFieldDefn)
                EXCEPT !.aux_mapped = @ + 1]
    /\ ret' = Void
    /\ UNCHANGED <<file, batchLen, heap, out>>

NextMapper == DoCreateFieldFromSchema

SpecMapper == InitMapper /\ [][NextMapper]_vars

\* A field of a schema, and a dictionary type.
Field(name, type, children) ==
    [name |-> name, type |-> type, nullable |-> TRUE, children |-> children]

DictionaryOf(indexType, valueType) ==
    [ArrowType("DICTIONARY") EXCEPT !.key_type = <<indexType>>,
                                    !.value_type = <<valueType>>]

\* The columns the schemas of the model are made of: plain columns, a
\* column of unhandled type, dictionary columns, an empty struct and a
\* struct with a struct inside.
SchemaColumns ==
    {Field("i", ArrowType("INT32"), <<>>),
     Field("d", ArrowType("DURATION"), <<>>),
     Field("k", DictionaryOf(ArrowType("INT8"), ArrowType("STRING")), <<>>),
     Field("n", DictionaryOf(ArrowType("INT8"), ArrowType("INT32")), <<>>),
     Field("e", ArrowType("STRUCT"), <<>>),
     Field("s", ArrowType("STRUCT"),
           <<Field("s.x", ArrowType("INT32"), <<>>),
             Field("s.d", ArrowType("DURATION"), <<>>),
             Field("s.t", ArrowType("STRUCT"),
                   <<Field("s.t.u", ArrowType("STRING"), <<>>),
                     Field("s.t.k",
                           DictionaryOf(ArrowType("INT8"),
                                        ArrowType("STRING")), <<>>),
                     Field("s.t.v", ArrowType("DOUBLE"), <<>>)>>),
             Field("s.y", ArrowType("INT16"), <<>>)>>)}

\* The schemas: up to MaxColumns columns of distinct names.
Schemas ==
    UNION {{s \in [1..n -> SchemaColumns] :
               \A i, j \in 1..n : s[i] = s[j] => i = j} : n \in 1..MaxColumns}

\* The layer before its constructor has mapped any column of the schema.
InitPaths ==
    \E schema \in Schemas : \E oMap \in GDALSchemas :
        /\ file = schema
        /\ batchLen = 1
        /\ this = [m_poFeatureDefn |-> <<>>,
                   m_anMapFieldIndexToArrowColumn |-> <<>>,
                   m_iBBOXMinXField |-> 0 - 1,
                   m_iBBOXMinYField |-> 0 - 1,
                   m_iBBOXMaxXField |-> 0 - 1,
                   m_iBBOXMaxYField |-> 0 - 1,
                   oMapFieldNameToGDALSchemaFieldDefn |-> oMap,
                   aux_mapped |-> 0]
        /\ ret = Void
        /\ heap = NewHeap
        /\ out = <<>>

\* CreateFieldFromSchema on the next column of the schema, its path the
\* index of the column.
DoCreateFieldFromSchemaOfColumn ==
    /\ this.aux_mapped < Len(file)
    /\ this' = [CreateFieldFromSchema(
                    this, file[this.aux_mapped + 1], <<this.aux_mapped>>,
                    this.oMapFieldNameToGDALSchemaFieldDefn)
                EXCEPT !.aux_mapped = @ + 1]
    /\ ret' = Void
    /\ UNCHANGED <<file, batchLen, heap, out>>

NextPaths == DoCreateFieldFromSchemaOfColumn

SpecPaths == InitPaths /\ [][NextPaths]_vars

\* ------------------------------------------------ BuildDomainFromBatch
\* The coded values of the loop of BuildDomainFromBatch over the strings
\* of a dictionary from string i on: one per string that is not null, its
\* code the index of the string.
RECURSIVE CodedValuesFrom(_, _)
CodedValuesFrom(values, i) ==
    IF i >= Len(values) THEN <<>>
    ELSE IF ~values[i + 1].isnull
    THEN <<[pszCode |-> IntToString(i), pszValue |-> values[i + 1].v]>>
         \o CodedValuesFrom(values, i + 1)
    ELSE CodedValuesFrom(values, i + 1)

\* BuildDomainFromBatch(osDomainName, poBatch, iCol): the coded-value
\* domain of a dictionary column of type dict_type whose dictionary holds
\* the strings dict.
BuildDomainFromBatch(osDomainName, dict_type, dict) ==
    LET indexTypeId == dict_type.key_type[1].id
    IN [name |-> osDomainName,
        eType |-> IF indexTypeId \in {"UINT32", "UINT64", "INT64"}
                  THEN "OFTInteger64" ELSE "OFTInteger",
        eSubType |-> "OFSTNone",
        asValues |-> CodedValuesFrom(dict, 0)]

\* The dictionary columns of the model: an index of each integer type,
\* values that are strings or integers.
DictionaryColumns ==
    {[Field("a", DictionaryOf(ArrowType(k), ArrowType(v)), <<>>)
         EXCEPT !.nullable = b] :
        k \in {"INT8", "UINT8", "INT16", "UINT16", "INT32", "UINT32",
               "INT64", "UINT64"},
        v \in {"STRING", "INT32"}, b \in BOOLEAN}

\* The dictionaries of the batches: up to MaxRows strings, null ones among
\* them.
Dictionaries ==
    UNION {[1..n -> {[isnull |-> TRUE, v |-> ""],
                     [isnull |-> FALSE, v |-> "x"],
                     [isnull |-> FALSE, v |-> "y"]}] : n \in 0..MaxRows}

\* The layer before its constructor maps a dictionary column whose
\* batches hold the dictionary aux_dictionary.
InitDomain ==
    \E field \in DictionaryColumns : \E oMap \in GDALSchemas :
    \E dict \in Dictionaries :
        /\ file = <<field>>
        /\ batchLen = 1
        /\ this = [m_poFeatureDefn |-> <<>>,
                   m_anMapFieldIndexToArrowColumn |-> <<>>,
                   m_iBBOXMinXField |-> 0 - 1,
                   m_iBBOXMinYField |-> 0 - 1,
                   m_iBBOXMaxXField |-> 0 - 1,
                   m_iBBOXMaxYField |-> 0 - 1,
                   oMapFieldNameToGDALSchemaFieldDefn |-> oMap,
                   aux_mapped |-> 0,
                   aux_dictionary |-> dict]
        /\ ret = Void
        /\ heap = NewHeap
        /\ out = <<>>

\* BuildDomainFromBatch for a field that carries a domain name, on the
\* column the field was made from.
DoBuildDomainFromBatch ==
    /\ this.aux_mapped = Len(file)
    /\ ret = Void
    /\ \E i \in 1..Len(this.m_poFeatureDefn) :
          /\ this.m_poFeatureDefn[i].domain
          /\ ret' = [kind |-> "BuildDomainFromBatch", iField |-> i,
                     domain |-> BuildDomainFromBatch(
                         this.m_poFeatureDefn[i].name,
                         file[this.m_anMapFieldIndexToArrowColumn[i][1] + 1]
                             .type,
                         this.aux_dictionary)]
    /\ UNCHANGED <<file, batchLen, this, heap, out>>

NextDomain ==
    \/ DoCreateFieldFromSchemaOfColumn
    \/ DoBuildDomainFromBatch

SpecDomain == InitDomain /\ [][NextDomain]_vars

\* ------------------------------------------------ IsValidGeometryEncoding
\* arrow::FixedSizeListType: a list of list_size values of valueType in a
\* value field named name.
FixedSizeListOf(list_size, name, valueType) ==
    [ListOf("FIXED_SIZE_LIST", valueType) EXCEPT !.byte_width = list_size,
                                                 !.timezone = name]

\* The branch of IsPointType for nOutDimensionality == 3: the flags it
\* leaves, which are its caller's for a name other than "xym" and "xyz".
PointFlagsOfThree(osValueFieldName, bHasZOut, bHasMOut) ==
    IF osValueFieldName = "xym"
    THEN [bHasZOut |-> FALSE, bHasMOut |-> TRUE]
    ELSE IF osValueFieldName = "xyz"
    THEN [bHasZOut |-> TRUE, bHasMOut |-> FALSE]
    ELSE [bHasZOut |-> bHasZOut, bHasMOut |-> bHasMOut]

\* IsPointType(type, bHasZOut, bHasMOut): [ret, bHasZOut, bHasMOut].  The
\* list size is kept in byte_width and the value field's name in timezone.
IsPointType(type, bHasZOut, bHasMOut) ==
    LET Out(r, z, m) == [ret |-> r, bHasZOut |-> z, bHasMOut |-> m]
        nOutDimensionality == type.byte_width
        bDouble == type.value_type[1].id = "DOUBLE"
    IN IF type.id # "FIXED_SIZE_LIST" THEN Out(FALSE, bHasZOut, bHasMOut)
       ELSE IF nOutDimensionality = 2 THEN Out(bDouble, FALSE, FALSE)
       ELSE IF nOutDimensionality = 3
       THEN LET f == PointFlagsOfThree(type.timezone, bHasZOut, bHasMOut)
            IN Out(bDouble, f.bHasZOut, f.bHasMOut)
       ELSE IF nOutDimensionality = 4 THEN Out(bDouble, TRUE, TRUE)
       ELSE Out(FALSE, bHasZOut, bHasMOut)

\* IsListOfPointType(type, nDepth, bHasZOut, bHasMOut)
RECURSIVE IsListOfPointType(_, _, _, _)
IsListOfPointType(type, nDepth, bHasZOut, bHasMOut) ==
    IF type.id # "LIST"
    THEN [ret |-> FALSE, bHasZOut |-> bHasZOut, bHasMOut |-> bHasMOut]
    ELSE IF nDepth = 1
    THEN IsPointType(type.value_type[1], bHasZOut, bHasMOut)
    ELSE IsListOfPointType(type.value_type[1], nDepth - 1, bHasZOut,
                           bHasMOut)

\* The depth of lists around the point of each GeoArrow encoding, and the
\* geometry type it stands for.
GeoArrowEncodings ==
    {[osEncoding |-> "geoarrow.point", nDepth |-> 0, eType |-> "wkbPoint"],
     [osEncoding |-> "geoarrow.linestring", nDepth |-> 1,
      eType |-> "wkbLineString"],
     [osEncoding |-> "geoarrow.polygon", nDepth |-> 2, eType |-> "wkbPolygon"],
     [osEncoding |-> "geoarrow.multipoint", nDepth |-> 1,
      eType |-> "wkbMultiPoint"],
     [osEncoding |-> "geoarrow.multilinestring", nDepth |-> 2,
      eType |-> "wkbMultiLineString"],
     [osEncoding |-> "geoarrow.multipolygon", nDepth |-> 3,
      eType |-> "wkbMultiPolygon"]}

\* OGR_GT_SetModifier(eType, bHasZ, bHasM)
OGR_GT_SetModifier(eType, bHasZ, bHasM) ==
    [eType |-> eType, bHasZ |-> bHasZ, bHasM |-> bHasM]

wkbUnknown == OGR_GT_SetModifier("wkbUnknown", FALSE, FALSE)

\* IsValidGeometryEncoding(field, osEncoding, eGeomTypeOut,
\* eOGRArrowGeomEncodingOut) for the GeoArrow encodings:
\* [ret, eGeomTypeOut, eOGRArrowGeomEncodingOut]
IsValidGeometryEncoding(fieldType, osEncoding) ==
    LET e == CHOOSE x \in GeoArrowEncodings : x.osEncoding = osEncoding
        r == IF e.nDepth = 0 THEN IsPointType(fieldType, FALSE, FALSE)
             ELSE IsListOfPointType(fieldType, e.nDepth, FALSE, FALSE)
    IN IF ~r.ret
       THEN [ret |-> FALSE, eGeomTypeOut |-> wkbUnknown,
             eOGRArrowGeomEncodingOut |-> "none"]
       ELSE [ret |-> TRUE,
             eGeomTypeOut |-> OGR_GT_SetModifier(e.eType, r.bHasZOut,
                                                 r.bHasMOut),
             eOGRArrowGeomEncodingOut |-> osEncoding]

\* nDim of ReadGeometry: the number of doubles it takes a point to hold.
ReadGeometryDim(eGeomType) ==
    2 + (IF eGeomType.bHasZ THEN 1 ELSE 0) + (IF eGeomType.bHasM THEN 1 ELSE 0)

\* The value field names and value types of the point lists of the model.
PointFieldNames == {"xy", "xyz", "xym", "xyzm", "vertices"}

RECURSIVE ListsAround(_, _)
ListsAround(type, nDepth) ==
    IF nDepth = 0 THEN type
    ELSE ListOf("LIST", ListsAround(type, nDepth - 1))

\* Column types offered as GeoArrow geometry: point lists of 1 to 5 values
\* inside 0 to 3 lists, and a plain double.
GeoArrowTypes ==
    {ListsAround(FixedSizeListOf(n, name, ArrowType(v)), d) :
        n \in 1..5, name \in PointFieldNames, v \in {"DOUBLE", "FLOAT"},
        d \in 0..3}
    \cup {ListsAround(ArrowType("DOUBLE"), d) : d \in 0..3}

\* A geometry column of the schema, its encoding not examined yet.
InitGeomEncoding ==
    \E type \in GeoArrowTypes : \E e \in GeoArrowEncodings :
        /\ file = <<>>
        /\ batchLen = 1
        /\ this = [fieldType |-> type, osEncoding |-> e.osEncoding,
                   eGeomType |-> wkbUnknown, m_aeGeomEncoding |-> "none",
                   aux_examined |-> FALSE]
        /\ ret = Void
        /\ heap = NewHeap
        /\ out = <<>>

\* The layer examines the column and, when the encoding is valid, keeps
\* the geometry type and the encoding for ReadGeometry.
DoIsValidGeometryEncoding ==
    /\ ~this.aux_examined
    /\ \E r \in {IsValidGeometryEncoding(this.fieldType, this.osEncoding)} :
          /\ this' = [this EXCEPT
                        !.eGeomType = r.eGeomTypeOut,
                        !.m_aeGeomEncoding = r.eOGRArrowGeomEncodingOut,
                        !.aux_examined = TRUE]
          /\ ret' = [kind |-> "IsValidGeometryEncoding", ok |-> r.ret]
    /\ UNCHANGED <<file, batchLen, heap, out>>

NextGeomEncoding == DoIsValidGeometryEncoding

SpecGeomEncoding == InitGeomEncoding /\ [][NextGeomEncoding]_vars

\* ------------------------------------------------ OGRArrowLayerAppendBuffer
\* MAX_SIZE_SINT32: std::numeric_limits<int32_t>::max().
MAX_SIZE_SINT32 == 2147483647

\* The number of times a buffer is grown in a run.
MaxGrows == 2

\* A heap block: its address, the bytes at its start that hold appended
\* data (nValid of them, the first ones spelled out in head).
RawBuffer(addr, nValid, head) ==
    [addr |-> addr, nValid |-> nValid, head |-> head]

\* memcpy(newBuffer, m_pRawBuffer, m_nSize) into a fresh block at addr.
CopyInto(addr, m_pRawBuffer, m_nSize) ==
    RawBuffer(addr, m_nSize,
              SubSeq(m_pRawBuffer.head, 1, Min(m_nSize, Len(m_pRawBuffer.head))))

\* nDoubleCapacity with no doubling at all.
nDoubleCapacity_NoDoubling(m_nCapacity) == 0

\* std::min<size_t>(MAX_SIZE_SINT32, 2 * m_nCapacity).  The product is
\* formed in size_t, where it cannot wrap for a capacity of at most
\* MAX_SIZE_SINT32; it is compared before it is formed here, as it does not
\* fit the checker's integers.
nDoubleCapacity(m_nCapacity) ==
    IF m_nCapacity > MAX_SIZE_SINT32 \div 2 THEN MAX_SIZE_SINT32
    ELSE 2 * m_nCapacity

\* OGRArrowLayerAppendBuffer::Grow(nItemSize) on the buffer object this_,
\* the allocation failing or not: [ok, this].
Grow(this_, nItemSize, bAllocFails) ==
    IF nItemSize > MAX_SIZE_SINT32 - this_.m_nSize
    THEN [ok |-> FALSE, this |-> this_]
    ELSE LET nNewCapacity ==
                 IF this_.m_nSize + nItemSize
                        < nDoubleCapacity(this_.m_nCapacity)
                 THEN nDoubleCapacity(this_.m_nCapacity)
                 ELSE this_.m_nSize + nItemSize
             newBuffer == CopyInto(this_.m_pRawBuffer.addr + 1,
                                   this_.m_pRawBuffer, this_.m_nSize)
         IN IF bAllocFails THEN [ok |-> FALSE, this |-> this_]
            ELSE [ok |-> TRUE,
                  this |-> [this_ EXCEPT
                              !.m_nCapacity = nNewCapacity,
                              !.aux_freed = @ \cup {this_.m_pRawBuffer.addr},
                              !.m_pRawBuffer = newBuffer,
                              !.m_psTargetArray.buffers2 = newBuffer.addr]]

\* Sizes, capacities and item sizes around 0, half of the largest offset
\* and the largest offset.
BufferSizes ==
    {0, 1, 2, 3,
     MAX_SIZE_SINT32 \div 2 - 1, MAX_SIZE_SINT32 \div 2,
     MAX_SIZE_SINT32 \div 2 + 1, MAX_SIZE_SINT32 \div 2 + 2,
     MAX_SIZE_SINT32 - 2, MAX_SIZE_SINT32 - 1, MAX_SIZE_SINT32}

\* The append buffer of CreateWKBArrayFromWKTArray after some appends:
\* m_nSize bytes written into a block of m_nCapacity bytes.
InitGrow ==
    \E c \in BufferSizes : \E s \in {x \in BufferSizes : x <= c} :
    \E head \in [1..Min(s, 2) -> {0, 1}] :
        /\ file = <<>>
        /\ batchLen = 1
        /\ this = [m_nSize |-> s, m_nCapacity |-> c,
                   m_pRawBuffer |-> RawBuffer(1, s, head),
                   m_psTargetArray |-> [buffers2 |-> 1],
                   aux_freed |-> {}]
        /\ ret = Void
        /\ heap = NewHeap
        /\ out = <<>>

\* A call of Grow; ret keeps the argument and the result.
DoGrow ==
    \E nItemSize \in BufferSizes : \E bAllocFails \in BOOLEAN :
        /\ this.m_pRawBuffer.addr <= MaxGrows
        /\ \E r \in {Grow(this, nItemSize, bAllocFails)} :
              /\ this' = r.this
              /\ ret' = [kind |-> "Grow", nItemSize |-> nItemSize,
                         ok |-> r.ok]
        /\ UNCHANGED <<file, batchLen, heap, out>>

NextGrow == DoGrow

SpecGrow == InitGrow /\ [][NextGrow]_vars

\* ============================================================== claims
\* The layer as it stood on the row the last GetNextRawFeature returned.
AtReturnedRow ==
    [this EXCEPT !.m_nIdxInBatch = ret.row, !.m_nFeatureIdx = @ - 1]

SpatialPathOf(this_) == this_.layout.m_aeGeomEncoding[this_.m_iGeomFieldFilter + 1]

BothFiltersActive ==
    this.m_poFilterGeom # 0 /\ this.m_asAttributeFilterConstraints # <<>>

\* C1: with a spatial filter and pushed-down attribute constraints both
\* active, every row GetNextRawFeature returns passes both tests: the
\* spatial test of its path (WKB, GeoArrow multipolygon, generic decode)
\* and every constraint.
C1_ReturnedRowPassesBothTests ==
    (ret.kind = "feature" /\ BothFiltersActive)
        => /\ ~SpatialSkipToNextFeature(AtReturnedRow, SpatialPathOf(this))
           /\ ~SkipToNextFeatureDueToAttributeFilter(AtReturnedRow)

IsRawFeatureResult(r) == r.kind \in {"feature", "nullptr"}

\* C5: once the batch source has reported that no further batch exists,
\* the cursor is at EOF: that GetNextRawFeature call and every later one
\* return no feature and pull nothing, and only a rewind leaves EOF.  A
\* pull happens only with no current batch or with the row index at the
\* current batch's row count.
C5_EOFHoldsUntilRewind ==
    [][IsRawFeatureResult(ret')
          => /\ this'.aux_pullOK
             /\ (this'.aux_noMore => this'.m_bEOF)
             /\ (this'.m_bEOF => ret'.kind = "nullptr")
             /\ (this.m_bEOF => this'.m_bEOF /\ this'.aux_pulls = 0)]_vars

C5_Witness ==
    /\ ret.kind = "nullptr" /\ this.m_bEOF /\ this.aux_pulls = 0
    /\ Len(file) > 1 /\ this.m_bSpatialFilterIntersectsLayerExtent

ShortcutsOf(this_) ==
    {this_.m_poArrayWKB, this_.m_poArrayWKBLarge, this_.m_poArrayBBOX,
     this_.m_poArrayMinX, this_.m_poArrayMinY, this_.m_poArrayMaxX,
     this_.m_poArrayMaxY}

\* C7: in every reachable state each cached spatial shortcut (the WKB
\* array, the large-WKB array, the bbox struct and the four bbox arrays)
\* is null or refers to a column of the current batch.
C7_ShortcutsNullOrCurrentBatch ==
    \A p \in ShortcutsOf(this) : p = 0 \/ p = this.m_poBatch

\* The envelope obtained by decoding every geometry of field iGeomField
\* in the file from row k on and merging the envelopes of the non-null
\* ones into e.
RECURSIVE DecodedExtentFrom(_, _, _, _)
DecodedExtentFrom(this_, iGeomField, k, e) ==
    IF k > Len(file) THEN e
    ELSE LET cell == file[k].cols[
                 this_.layout.m_anMapGeomFieldIndexToArrowColumn[
                     iGeomField + 1] + 1]
             poGeometry == ReadGeometry(this_, iGeomField, cell)
         IN DecodedExtentFrom(this_, iGeomField, k + 1,
                IF poGeometry.null THEN e
                ELSE Merge(e, getEnvelope(poGeometry.g)))

DecodedExtent(this_, iGeomField) ==
    DecodedExtentFrom(this_, iGeomField, 1, OGREnvelope)

\* The last call was a GetExtent that answered from the rows of the file
\* (by the pass of this call or of an earlier one).
ExtentFromRows == ret.kind = "extent" /\ (ret.err = "OGRERR_NONE" \/ this.aux_pulls > 0)

\* C8 (as stated): for any sequence of batches, the envelope of GetExtent's
\* row-by-row pass equals the envelope obtained by fully decoding every
\* non-null geometry and merging their envelopes.
C8_ExtentEqualsDecodedExtent ==
    ExtentFromRows => ret.env = DecodedExtent(this, 0)

\* Every part's rings after the first lie within the envelope of its
\* first ring, as in a valid polygon.
RingsWithinFirstRing(g) ==
    \A j \in 1..Len(g) :
        g[j] = <<>>
        \/ MergeRings(OGREnvelope, g[j]) = MergePoints(OGREnvelope, g[j][1])

FileRingsWithinFirstRing ==
    \A k \in 1..Len(file) :
        LET cell == file[k].cols[
                this.layout.m_anMapGeomFieldIndexToArrowColumn[1] + 1]
        IN cell.isnull \/ RingsWithinFirstRing(cell.v.g)

\* C8 (amended): when in every polygon the rings after the first lie
\* within the envelope of the first ring, the envelope of GetExtent's
\* row-by-row pass equals the envelope obtained by fully decoding every
\* non-null geometry and merging their envelopes.
C8_ExtentEqualsDecodedExtentOfValidPolygons ==
    (ExtentFromRows /\ FileRingsWithinFirstRing)
        => ret.env = DecodedExtent(this, 0)

C8_Witness ==
    /\ ExtentFromRows /\ FileRingsWithinFirstRing
    /\ this.aux_pulls > 1
    /\ SpatialPathOf(this) = "GEOARROW_MULTIPOLYGON"
    /\ ret.env = Env(0, 0, 3, 3)

CachedExtentAnswer(this_) ==
    Ret("extent", 0 - 1, 0, 0, "OGRERR_NONE", this_.m_oMapExtents[1].env, 0)

\* C9: once a GetExtent call for a geometry field has succeeded by the
\* full pass, every later GetExtent call for the field returns the same
\* envelope, reads no batch and leaves the cursor where it is, whatever
\* filter, rewind or read calls happen in between.
C9_ExtentCachedForGood ==
    [][/\ this.m_oMapExtents[1].has
              => this'.m_oMapExtents = this.m_oMapExtents
       /\ (~this.m_oMapExtents[1].has /\ this'.m_oMapExtents[1].has)
              => /\ ret'.kind = "extent" /\ ret'.err = "OGRERR_NONE"
                 /\ this'.m_oMapExtents[1].env = ret'.env
       /\ this'.m_oMapExtents[1].has
              => \A bForce \in BOOLEAN :
                    LET r == GetExtent(Begin(this'), 0, bForce)
                    IN /\ r.ret = CachedExtentAnswer(this')
                       /\ r.this = Begin(this')]_vars

C9_Witness ==
    /\ ret = CachedExtentAnswer(this)
    /\ this.m_oMapExtents[1].has
    /\ this.aux_pulls = 0
    /\ this.m_nIdxInBatch > 0
    /\ this.m_poBatch > 1
    /\ this.m_poAttrQuery # NullQuery

\* The set-up of C10: a WKB geometry column with the four bbox columns, a
\* spatial filter that may intersect the layer, no attribute constraint.
BBoxFastPath(this_) ==
    /\ this_.layout.m_aeGeomEncoding[this_.m_iGeomFieldFilter + 1] = "WKB"
    /\ this_.layout.m_iBBOXMinXField >= 0
    /\ this_.m_poFilterGeom # 0
    /\ this_.m_asAttributeFilterConstraints = <<>>
    /\ this_.m_bSpatialFilterIntersectsLayerExtent

\* The geometry cell of the row at zero-based position p of the file.
GeometryCellAt(this_, p) ==
    file[p + 1].cols[this_.layout.m_anMapGeomFieldIndexToArrowColumn[
                         this_.m_iGeomFieldFilter + 1] + 1]

\* The row at position p has no bbox quadruple: the struct, or xmin, is
\* null.
QuadrupleIsNull(this_, p) ==
    LET c == file[p + 1].cols[3]
    IN c.isnull \/ (this_.layout.bboxMode = "struct" /\ c.v[1].isnull)

\* The rows a GetNextRawFeature step passed over: from the position of the
\* cursor to the returned row, or to the end of the file.
PassedOver(r) ==
    this.m_nFeatureIdx ..
        (IF r.kind = "feature" THEN r.fid - 1 ELSE Len(file) - 1)

\* C10 (as stated): with a WKB column, the four bbox columns, a spatial
\* filter and no attribute constraint, the rows the fast path of
\* GetNextRawFeature lets through are the rows whose decoded geometry is
\* non-null with an envelope intersecting the filter envelope.
C10_FastPathEqualsDecode ==
    [][(BBoxFastPath(this) /\ IsRawFeatureResult(ret'))
          => /\ ret'.kind = "feature"
                    => FilterGeometry(this, GeometryCellAt(this, ret'.fid))
             /\ \A p \in PassedOver(ret') :
                    ~FilterGeometry(this, GeometryCellAt(this, p))]_vars

\* The row at position p decodes to a geometry whose envelope intersects
\* the filter envelope, or has no bbox quadruple and WKB bytes that the
\* bounding-box probe cannot read.
DecodePassesOrUnprobed(this_, p) ==
    LET cell == GeometryCellAt(this_, p)
    IN \/ FilterGeometry(this_, cell)
       \/ (~cell.isnull /\ cell.v.st # "ok" /\ QuadrupleIsNull(this_, p))

\* C10 (amended): with a WKB column, the four bbox columns (each non-null
\* quadruple the envelope of its row's well-formed geometry), a spatial
\* filter and no attribute constraint, the rows the fast path lets through
\* are the rows whose decoded geometry is non-null with an envelope
\* intersecting the filter envelope, and the non-null rows without a
\* quadruple whose WKB bytes the bounding-box probe cannot read.
C10_FastPathEqualsDecodeOrUnprobed ==
    [][(BBoxFastPath(this) /\ IsRawFeatureResult(ret'))
          => /\ ret'.kind = "feature"
                    => DecodePassesOrUnprobed(this, ret'.fid)
             /\ \A p \in PassedOver(ret') :
                    ~DecodePassesOrUnprobed(this, p)]_vars

C10_Witness ==
    /\ BBoxFastPath(this) /\ ret.kind = "feature"
    /\ ret.fid = 1
    /\ FilterGeometry(this, GeometryCellAt(this, 1))
    /\ ~QuadrupleIsNull(this, 1)
    /\ ~GeometryCellAt(this, 0).isnull /\ QuadrupleIsNull(this, 0)
    /\ GeometryCellAt(this, 0).v.st = "ok"
    /\ this.aux_pulls = 1

StreamFilterActive(this_) ==
    this_.m_poAttrQuery # NullQuery \/ this_.m_poFilterGeom # 0

\* C3: in GetNextArrowArray with an attribute or spatial filter active, a
\* batch left with zero rows by post-filtering is not returned, the next
\* batch is pulled instead; the zero-initialized array with status 0 is
\* returned only when the batch source has no more batches.
C3_EmptyBatchIsSkippedNotReturned ==
    [][(ret'.kind = "array" /\ ret'.err = "0" /\ StreamFilterActive(this))
          => /\ ret'.batch = 0 => (this.m_bEOF \/ this'.aux_noMore)
             /\ ret'.batch # 0
                    => /\ ret'.length > 0
                       /\ ret'.length
                              = PostFilterArrowArray(this, ret'.batch, 0)]_vars

C3_Witness ==
    /\ ret.kind = "array" /\ ret.err = "0" /\ StreamFilterActive(this)
    /\ ret.batch > 1 /\ ret.length > 0
    /\ this.aux_pulls > 1
    /\ PostFilterArrowArray(this, 1, 0) = 0

\* The decoded record at zero-based position p of the file satisfies the
\* attribute query.
RecordSatisfiesQuery(this_, p) ==
    AttrQueryEvaluate(this_,
        DecodedFields(this_, (p \div batchLen) + 1, p % batchLen), p)

\* C2: for a conjunctive predicate of column-versus-constant comparisons
\* and null checks over integer, 64-bit integer, real and string columns,
\* the rows that pass the compiled constraints are the rows whose decoded
\* record satisfies the predicate, also when the literal's type differs
\* from the column's (an integer column against a fractional literal).
C2_PushdownEqualsFullEvaluation ==
    [][(this.m_asAttributeFilterConstraints # <<>> /\ this.m_poFilterGeom = 0
        /\ IsRawFeatureResult(ret'))
          => /\ ret'.kind = "feature" => RecordSatisfiesQuery(this, ret'.fid)
             /\ \A p \in PassedOver(ret') : ~RecordSatisfiesQuery(this, p)]_vars

\* The zero-based source columns that are not ignored, in order.
NonIgnoredColumns(this_) ==
    LET n == Len(this_.layout.m_poSchema)
        Ignored(c) ==
            LET d == FieldDesc(this_, c)
            IN d.nIdx >= 0
               /\ (IF d.bIsRegularField
                   THEN this_.layout.m_abFieldIgnored[d.nIdx + 1]
                   ELSE this_.layout.m_abGeomFieldIgnored[d.nIdx + 1])
        kept == {c \in 0..(n - 1) : ~Ignored(c)}
        Rank(c) == Cardinality({k \in kept : k < c})
    IN [s \in 1..Cardinality(kept) |->
           CHOOSE c \in kept : Rank(c) = s - 1]

\* C4: after GetArrowSchemaInternal the children of the exported schema
\* are the source columns that are not ignored, in their order: the child
\* count is the source count minus the ignored count and every slot below
\* it holds a live child, wherever the identifier column stands
\* relative to the ignored columns.
C4_ChildrenAreNonIgnoredColumns ==
    (ret.kind = "schema" /\ ret.err = "0")
        => /\ ret.n_children = Len(NonIgnoredColumns(this))
           /\ \A s \in 1..ret.n_children :
                 /\ ~ret.structs[ret.children[s]].released
                 /\ ret.structs[ret.children[s]].col
                        = NonIgnoredColumns(this)[s]

\* The three-row batch 'a', null, 'c' under the filter name != 'a'.
NameScenario(this_) ==
    /\ file = NamedFile(ScenarioNames)
    /\ batchLen = Len(file)
    /\ this_.m_poAttrQuery = NameNotA
    /\ this_.m_poFilterGeom = 0

\* The feature r is the decoding of the row at its position: its own name
\* value and its own point.
DecodedWithOwnValues(this_, r) ==
    /\ RowsBefore(r.batch) + r.row = r.fid
    /\ DecodedFields(this_, r.batch, r.row) = <<ScenarioNames[r.fid + 1]>>
    /\ ReadGeometry(this_, 0, GeometryCell(this_, 0, r.batch, r.row))
           = [null |-> FALSE, g |-> PointOf(r.fid + 1)]

\* In the scenario, a GetNextRawFeature step returns rows of the set
\* survivors (zero-based positions) only, passes over no row of it, and
\* decodes the row it returns.
SurvivorsAre(survivors) ==
    (NameScenario(this) /\ IsRawFeatureResult(ret'))
        => /\ ret'.kind = "feature"
                  => /\ ret'.fid \in survivors
                     /\ DecodedWithOwnValues(this', ret')
           /\ \A p \in PassedOver(ret') : p \notin survivors

\* C11 (as stated): for the batch 'a', null, 'c' and the filter
\* name != 'a', the rows that survive iteration are row 2 and row 3, each
\* decoded with its own name value and point coordinates.
C11_NullAndCSurvive == [][SurvivorsAre({1, 2})]_vars

\* C11 (amended): for the batch 'a', null, 'c' and the filter name != 'a',
\* the only row that survives iteration is row 3, decoded with its own
\* name value and point coordinates; the null of row 2 fails the
\* inequality.
C11_OnlyCSurvives == [][SurvivorsAre({2})]_vars

C11_Witness ==
    /\ NameScenario(this)
    /\ ret.kind = "feature" /\ ret.fid = 2 /\ ret.row = 2
    /\ this.m_nFeatureIdx = 3
    /\ this.m_asAttributeFilterConstraints # <<>>

\* The step is a call of GetNextArrowArray asked for WKB geometries.
IsWKBArrayCall(r) ==
    r.kind = "array" /\ this.layout.GEOMETRY_ENCODING = "WKB"

\* Array c holds, complete, the WKB of geometry field i of the rows of
\* batch b.
IsWKBOfColumn(c, i, b) ==
    /\ c.release = "ReleaseArray"
    /\ c.length = num_rows(b)
    /\ Len(c.data) = num_rows(b)
    /\ \A j \in 1..num_rows(b) :
          LET cell == RowAt(b, j - 1).cols[
                          this.layout.m_anMapGeomFieldIndexToArrowColumn[i + 1]
                          + 1]
          IN c.data[j] = [enc |-> "WKB",
                          st |-> IF cell.isnull THEN "null" ELSE cell.v.st,
                          g |-> cell.v.g]

\* The requested geometry fields stored as WKT.
RequestedWKTFields ==
    {i \in 0..(GetGeomFieldCount(this) - 1) :
        /\ ~this.layout.m_abGeomFieldIgnored[i + 1]
        /\ this.layout.m_aeGeomEncoding[i + 1] = "WKT"}

\* C12: a call of GetNextArrowArray asked for WKB geometries that returns
\* ENOMEM, as it does when a WKT column cannot be converted, leaves
\* out_array zero-initialized with every array the call built or exported
\* released, once each, and the pool reference count as before; a call
\* that returns 0 with a batch hands out every requested WKT column
\* converted to WKB for all the rows of the batch, never a text column or
\* a column built in part.
C12_ConversionFailureReleasesAndZeroes ==
    [][IsWKBArrayCall(ret')
          => \A k \in DOMAIN out :
                /\ ret'.err = "ENOMEM"
                       => /\ k = 1 => out'[k] = ZeroStruct
                          /\ heap'.live = heap.live
                          /\ heap'.poMemoryPool = heap.poMemoryPool
                          /\ ~heap'.aux_badRelease
                /\ (ret'.err = "0" /\ ret'.batch # 0 /\ out'[k] # out[k])
                       => \A i \in RequestedWKTFields :
                             IsWKBOfColumn(
                                 out'[k].children[GeomColumn(this, i) + 1],
                                 i, ret'.batch)]_vars

\* The conversion failed on the second batch, after an array was handed
\* out and released; both geometry fields are WKT columns.
C12_Witness ==
    /\ IsWKBArrayCall(ret) /\ ret.err = "ENOMEM"
    /\ out[1] = ZeroStruct
    /\ this.m_poBatch = 2
    /\ RequestedWKTFields = {0, 1}
    /\ heap.live = {}

\* The slice of the batch source of the layer, as ExportedChild takes it.
SliceOfLayer ==
    [nOffset |-> this.layout.nArrayOffset, bLead |-> this.layout.bLead,
     bBitmap |-> this.layout.bBitmap, bCount |-> this.layout.bCount]

\* Validity bit j of an array: an array without bitmap has no null.
ValidityBit(a, j) == IF a.validity.has THEN a.validity.bits[j + 1] ELSE TRUE

\* The call before this state was a GetNextArrowArray asked for WKB
\* geometries that handed out a batch in out[1].
HandedOutWKBArray ==
    /\ IsWKBArrayCall(ret) /\ ret.err = "0" /\ ret.batch # 0
    /\ out[1].release # "nullptr"

\* C14: the array CreateWKBArrayFromWKTArray builds has the length and the
\* null count of its source, and its validity bit i is the source's
\* validity bit i + offset, for sources of zero and of nonzero offset,
\* with and without validity bitmap.
C14_ValidityRebasedFromOffset ==
    HandedOutWKBArray
        => \A i \in RequestedWKTFields :
              LET sourceArray == ExportedChild(this, ret.batch, 1,
                                               GeomColumn(this, i),
                                               SliceOfLayer)
                  targetArray == out[1].children[GeomColumn(this, i) + 1]
              IN /\ targetArray.length = sourceArray.length
                 /\ targetArray.null_count = sourceArray.null_count
                 /\ \A j \in 0..(sourceArray.length - 1) :
                       ValidityBit(targetArray, j)
                           = ValidityBit(sourceArray,
                                         j + sourceArray.offset)

\* A source of offset 1 whose element before the offset is valid and whose
\* first row is null was converted, its second row being valid.
C14_Witness ==
    /\ HandedOutWKBArray
    /\ 0 \in RequestedWKTFields
    /\ this.layout.nArrayOffset = 1 /\ this.layout.bLead
    /\ out[1].children[GeomColumn(this, 0) + 1].length = 2
    /\ out[1].children[GeomColumn(this, 0) + 1].validity.bits
           = <<FALSE, TRUE>>

\* The consumer's struct k holds an object wrapped by OverrideArrowRelease
\* and not released.
IsWrapped(o) == o.release = "OverriddenPrivate"

\* C13: releasing an object wrapped by OverrideArrowRelease puts back the
\* private data the object had before, runs the release callback it had
\* before exactly once and gives up one reference to the memory pool, the
\* callback running while the pool is alive; the pool is not freed while
\* a wrapped object is unreleased, whether the dataset is open or closed.
C13_PoolOutlivesWrappedObjects ==
    [][/\ \A k \in DOMAIN out :
             (IsWrapped(out[k]) /\ ~IsWrapped(out'[k]))
                 => /\ out'[k].release = "nullptr"
                    /\ out'[k].private_data.kind
                           = out[k].private_data.pPreviousPrivateData
                    /\ out'[k].private_data.kind = "Original"
                    /\ out'[k].aux_releases = 1
                    /\ \A c \in DOMAIN out'[k].children :
                          out'[k].children[c].aux_releases = 1
                    /\ heap'.poMemoryPool.use_count
                           = heap.poMemoryPool.use_count - 1
       /\ ~heap'.aux_poolUsedAfterFree
       /\ ~heap'.aux_badRelease
       /\ (\E k \in DOMAIN out : IsWrapped(out'[k]))
              => ~heap'.poMemoryPool.freed
       /\ heap'.poMemoryPool.use_count
              = Cardinality({k \in DOMAIN out : IsWrapped(out'[k])})
                + (IF heap'.open THEN 1 ELSE 0)]_vars

\* The dataset is closed, one array was released and the other one, still
\* held, keeps the pool alive with the only reference left.
C13_Witness ==
    /\ ~heap.open
    /\ out[1].release = "nullptr" /\ out[1].aux_releases = 1
    /\ IsWrapped(out[2])
    /\ heap.poMemoryPool.use_count = 1
    /\ ~heap.poMemoryPool.freed

\* The features successive GetNextRawFeature calls return from this_ on,
\* up to the first call that returns no feature, n calls at most.
RECURSIVE FeaturesFrom(_, _)
FeaturesFrom(this_, n) ==
    IF n = 0 THEN <<>>
    ELSE Only({IF r.ret.kind = "nullptr" THEN <<>>
               ELSE <<r.ret>> \o FeaturesFrom(r.this, n - 1) :
               r \in {GetNextRawFeature(Begin(this_))}})

\* A layer freshly opened on the same file and brought to the filters of
\* this_: the attribute query with its constraints, the spatial filter
\* with what the layer knows of its extent.  The cursor, the batch and
\* the shortcuts into it are those of the constructor.
FreshWithFiltersOf(this_) ==
    [NewLayer(this_.layout) EXCEPT
       !.m_poFilterGeom = this_.m_poFilterGeom,
       !.m_sFilterEnvelope = this_.m_sFilterEnvelope,
       !.m_iGeomFieldFilter = this_.m_iGeomFieldFilter,
       !.m_bSpatialFilterIntersectsLayerExtent =
           this_.m_bSpatialFilterIntersectsLayerExtent,
       !.m_poAttrQuery = this_.m_poAttrQuery,
       !.m_asAttributeFilterConstraints =
           this_.m_asAttributeFilterConstraints,
       !.m_oMapExtents = this_.m_oMapExtents]

\* The step is a call of ResetReading.
IsResetReadingStep == ret' = Void /\ this' = ResetReading(Begin(this))

\* C15: after ResetReading, whatever the position it is called at, the
\* features successive GetNextRawFeature calls return are those a freshly
\* opened layer with the same filters returns: the same rows in the same
\* order with the same identifiers.
C15_RewindReadsAsFreshLayer ==
    [][IsResetReadingStep
          => FeaturesFrom(this', MaxRows + 1)
                 = FeaturesFrom(FreshWithFiltersOf(this'), MaxRows + 1)]_vars

\* ResetReading was called in the middle of the first batch, which the
\* layer keeps, with a spatial filter set, and two features are to come.
C15_Witness ==
    /\ ret = Void
    /\ this.m_iRecordBatch = 0 /\ this.m_poBatch = 1
    /\ this.m_nIdxInBatch = 0 /\ this.m_nFeatureIdx = 0
    /\ this.m_poFilterGeom # 0
    /\ batchLen = 2
    /\ Len(FeaturesFrom(this, MaxRows + 1)) = 2

\* The record type the reference table gives an Arrow type id.
ReferenceType(id) ==
    CASE id \in {"BOOL", "INT8", "UINT8", "UINT16", "INT16", "INT32"}
             -> "OFTInteger"
      [] id \in {"UINT32", "INT64", "TIME64"} -> "OFTInteger64"
      [] id \in {"UINT64", "HALF_FLOAT", "FLOAT", "DOUBLE", "DECIMAL128",
                 "DECIMAL256"} -> "OFTReal"
      [] id \in {"STRING", "LARGE_STRING"} -> "OFTString"
      [] id \in {"BINARY", "LARGE_BINARY", "FIXED_SIZE_BINARY"}
             -> "OFTBinary"
      [] id \in {"DATE32", "DATE64"} -> "OFTDate"
      [] id = "TIMESTAMP" -> "OFTDateTime"
      [] id = "TIME32" -> "OFTTime"
      [] OTHER -> "none"

\* The subtype the reference table names for an Arrow type id, "" where
\* it names none.
ReferenceSubType(id) ==
    CASE id = "BOOL" -> "OFSTBoolean"
      [] id = "INT16" -> "OFSTInt16"
      [] id \in {"HALF_FLOAT", "FLOAT"} -> "OFSTFloat32"
      [] OTHER -> ""

\* The types the mapper handles by looking into them (lists and maps), or
\* that its caller takes apart or replaces (structs, dictionaries).
NestedTypeIds == {"LIST", "FIXED_SIZE_LIST", "MAP", "STRUCT", "DICTIONARY"}

\* The step maps the field of the schema, of a type that is not nested.
MapsPlainField ==
    /\ this'.aux_mapped = this.aux_mapped + 1
    /\ file[1].type.id \notin NestedTypeIds

\* The step added one field, the last one, with the column path of the
\* field mapped.
AddedField ==
    /\ Len(this'.m_poFeatureDefn) = Len(this.m_poFeatureDefn) + 1
    /\ SubSeq(this'.m_poFeatureDefn, 1, Len(this.m_poFeatureDefn))
           = this.m_poFeatureDefn
    /\ this'.m_anMapFieldIndexToArrowColumn
           = Append(this.m_anMapFieldIndexToArrowColumn,
                    <<Len(this.m_poFeatureDefn)>>)

\* The step added no field and no column path.
DroppedField ==
    /\ this'.m_poFeatureDefn = this.m_poFeatureDefn
    /\ this'.m_anMapFieldIndexToArrowColumn
           = this.m_anMapFieldIndexToArrowColumn

\* The field the step added has the type of the reference table, the
\* subtype where the table names one, and the width and precision w and p
\* where the type has them.
AddedAsInTable(type, w, p) ==
    LET f == this'.m_poFeatureDefn[Len(this'.m_poFeatureDefn)]
    IN /\ AddedField
       /\ f.type = ReferenceType(type.id)
       /\ ReferenceSubType(type.id) # ""
              => f.subtype = ReferenceSubType(type.id)
       /\ type.id = "FIXED_SIZE_BINARY" => f.width = w
       /\ type.id \in {"DECIMAL128", "DECIMAL256"}
              => f.width = w /\ f.precision = p

\* The width or precision of the field "name": that of the gdal:schema
\* definition of the field when it has a positive one, v otherwise.
UnlessDeclared(name, member, v) ==
    LET d == FindFieldDefn(this.oMapFieldNameToGDALSchemaFieldDefn, name)
    IN IF d # <<>> /\ d[1][member] > 0 THEN d[1][member] ELSE v

\* C16 as stated: a field of a type of the reference table is added with
\* the table's type, subtype, width and precision; a field of any other
\* type that is not a list or a map is dropped, adding no field and no
\* column path.
C16_TableOrDropped ==
    [][MapsPlainField
          => LET type == file[1].type
             IN IF ReferenceType(type.id) # "none"
                THEN AddedAsInTable(
                         type,
                         IF type.id = "FIXED_SIZE_BINARY"
                         THEN type.byte_width ELSE type.precision,
                         type.scale)
                ELSE DroppedField]_vars

\* C16: a field of a type of the reference table is added with the
\* table's type and subtype, with the byte width (fixed-size binary) or
\* the precision and scale (decimals) as width and precision unless the
\* gdal:schema definition of the field declares positive ones, which then
\* apply; a field of null type is added as a string field; a field of any
\* other type that is not a list or a map is dropped, adding no field and
\* no column path.
C16_TableWithDeclaredWidthOrDropped ==
    [][MapsPlainField
          => LET type == file[1].type
                 name == file[1].name
             IN IF ReferenceType(type.id) # "none"
                THEN AddedAsInTable(
                         type,
                         UnlessDeclared(
                             name, "width",
                             IF type.id = "FIXED_SIZE_BINARY"
                             THEN type.byte_width ELSE type.precision),
                         UnlessDeclared(name, "precision", type.scale))
                ELSE IF type.id = "NA"
                THEN /\ AddedField
                     /\ this'.m_poFeatureDefn[
                            Len(this'.m_poFeatureDefn)].type = "OFTString"
                ELSE DroppedField]_vars

\* A decimal field with a declared width was mapped after two others.
C16_Witness ==
    /\ this.aux_mapped = 1
    /\ file[1].type.id = "DECIMAL128" /\ file[1].type.scale = 2
    /\ Len(this.m_poFeatureDefn) = 3
    /\ this.m_poFeatureDefn[3].width = 5
    /\ this.m_poFeatureDefn[3].precision = 2
    /\ this.m_poFeatureDefn[3].type = "OFTReal"
    /\ this.m_anMapFieldIndexToArrowColumn[3] = <<2>>

\* The attribute query is a comparison with the constant on the left and
\* the column on the right.
ConstantOnLeft(poNode) ==
    /\ poNode # NullQuery
    /\ poNode.eNodeType = "SNT_OPERATION"
    /\ poNode.nOperation \in ComparisonOps
    /\ GetColumnSubNode(poNode) = 2
    /\ GetConstantSubNode(poNode) = 1

\* The operator that, with its operands swapped, says the same.
MirrorOperator(op) ==
    CASE op = "SWQ_LT" -> "SWQ_GT"
      [] op = "SWQ_LE" -> "SWQ_GE"
      [] op = "SWQ_GE" -> "SWQ_LE"
      [] op = "SWQ_GT" -> "SWQ_LT"
      [] op = "SWQ_EQ" -> "SWQ_EQ"
      [] op = "SWQ_NE" -> "SWQ_NE"

\* The compiled constraint of a constant-on-left comparison carries the
\* mirror of the node's operator.
CompiledWithMirror(this_) ==
    /\ Len(this_.m_asAttributeFilterConstraints) = 1
    /\ this_.m_asAttributeFilterConstraints[1].nOperation
           = MirrorOperator(this_.m_poAttrQuery.nOperation)

\* C17: for a comparison with the constant on the left, the compiled
\* constraint's operator is the mirror of the node's operator for <, <=,
\* >=, > and the operator itself for = and !=, and for every column value
\* and every constant the rows the constraint lets through are the rows
\* for which "constant op column" holds.
C17_MirroredConstraintEqualsExpression ==
    [][(ConstantOnLeft(this.m_poAttrQuery) /\ IsRawFeatureResult(ret'))
          => /\ CompiledWithMirror(this)
             /\ ret'.kind = "feature"
                    => EvaluateNode(this.layout.FieldDefn, this.m_poAttrQuery,
                           DecodedFields(this, (ret'.fid \div batchLen) + 1,
                                         ret'.fid % batchLen), ret'.fid) = "T"
             /\ \A p \in this.m_nFeatureIdx ..
                    (IF ret'.kind = "feature" THEN ret'.fid - 1
                     ELSE Len(file) - 1) :
                    EvaluateNode(this.layout.FieldDefn, this.m_poAttrQuery,
                        DecodedFields(this, (p \div batchLen) + 1,
                                      p % batchLen), p) # "T"]_vars

\* A leaf of a predicate tree: a comparison of a column with a constant,
\* col IS NULL, or NOT (col IS NULL).
IsNullCheck(n) ==
    /\ n.eNodeType = "SNT_OPERATION" /\ n.nOperation = "SWQ_ISNULL"
    /\ n.papoSubExpr[1].eNodeType = "SNT_COLUMN"

IsPushdownLeaf(n) ==
    /\ n.eNodeType = "SNT_OPERATION"
    /\ IF n.nOperation \in ComparisonOps
       THEN {n.papoSubExpr[1].eNodeType, n.papoSubExpr[2].eNodeType}
                = {"SNT_COLUMN", "SNT_CONSTANT"}
       ELSE IF n.nOperation = "SWQ_NOT" THEN IsNullCheck(n.papoSubExpr[1])
       ELSE IsNullCheck(n)

\* The leaves of the tree n that are reachable from its root through AND
\* nodes alone, from left to right.
RECURSIVE LeavesThroughAnd(_)
LeavesThroughAnd(n) ==
    IF n.eNodeType = "SNT_OPERATION" /\ n.nOperation = "SWQ_AND"
    THEN LeavesThroughAnd(n.papoSubExpr[1])
             \o LeavesThroughAnd(n.papoSubExpr[2])
    ELSE IF IsPushdownLeaf(n) THEN <<n>>
    ELSE <<>>

\* The number of leaves anywhere in the tree n.
RECURSIVE CountLeaves(_)
CountLeaves(n) ==
    IF IsPushdownLeaf(n) THEN 1
    ELSE IF n.eNodeType # "SNT_OPERATION" THEN 0
    ELSE IF Len(n.papoSubExpr) = 1 THEN CountLeaves(n.papoSubExpr[1])
    ELSE CountLeaves(n.papoSubExpr[1]) + CountLeaves(n.papoSubExpr[2])

\* The field and the operation of the constraint a leaf stands for.
LeafAsConstraint(n) ==
    IF n.nOperation = "SWQ_NOT"
    THEN <<n.papoSubExpr[1].papoSubExpr[1].field_index, "SWQ_ISNOTNULL">>
    ELSE IF n.nOperation = "SWQ_ISNULL"
    THEN <<n.papoSubExpr[1].field_index, "SWQ_ISNULL">>
    ELSE IF n.papoSubExpr[1].eNodeType = "SNT_COLUMN"
    THEN <<n.papoSubExpr[1].field_index, n.nOperation>>
    ELSE <<n.papoSubExpr[2].field_index, MirrorOperator(n.nOperation)>>

\* C18: the constraints of a predicate over fields of the supported types
\* are those of its leaves (column-versus-constant comparison, col IS NULL,
\* NOT (col IS NULL)) reachable from the root through AND nodes alone, in
\* left-to-right order; a leaf below an OR node, or below a NOT that does
\* not directly wrap an IS NULL, contributes none.
C18_ConstraintsAreLeavesThroughAnd ==
    this.m_poAttrQuery # NullQuery
        => LET leaves == LeavesThroughAnd(this.m_poAttrQuery)
               cons == this.m_asAttributeFilterConstraints
           IN /\ Len(cons) = Len(leaves)
              /\ \A i \in 1..Len(cons) :
                     <<cons[i].iField, cons[i].nOperation>>
                         = LeafAsConstraint(leaves[i])

\* x AND (y OR z): one constraint, that of x, out of three leaves.
C18_Witness ==
    /\ this.m_poAttrQuery # NullQuery
    /\ this.m_poAttrQuery.nOperation = "SWQ_AND"
    /\ this.m_poAttrQuery.papoSubExpr[2].nOperation = "SWQ_OR"
    /\ CountLeaves(this.m_poAttrQuery) = 3
    /\ Len(this.m_asAttributeFilterConstraints) = 1
    /\ this.m_asAttributeFilterConstraints[1].iField
           = this.m_poAttrQuery.papoSubExpr[1].papoSubExpr[1].field_index

\* The attribute query is one comparison of the FID pseudo-field with a
\* literal.
IsFIDComparison(this_) ==
    /\ this_.m_poAttrQuery # NullQuery
    /\ this_.m_poAttrQuery.nOperation \in ComparisonOps
    /\ this_.m_poAttrQuery.papoSubExpr[GetColumnSubNode(this_.m_poAttrQuery)]
           .field_index = GetFieldCount(this_) + SPF_FID

\* The comparison of the query holds between its literal and n.
FIDComparisonHolds(this_, n) ==
    EvaluateNode(this_.layout.FieldDefn, this_.m_poAttrQuery, <<>>, n) = "T"

\* C19: with no identifier column, a constraint on the FID pseudo-field
\* lets a row pass exactly when the comparison holds between the literal
\* and the global row counter of that row: the feature GetNextRawFeature
\* returns is the first row from the cursor on whose zero-based position
\* in the file satisfies the comparison, and that position is the
\* identifier it is given.
C19_FIDConstraintComparesRowCounter ==
    [][(IsFIDComparison(this) /\ this.layout.m_osFIDColumn = <<>>
        /\ IsRawFeatureResult(ret'))
          => IF ret'.kind = "feature"
             THEN /\ ret'.fid = RowsBefore(ret'.batch) + ret'.row
                  /\ FIDComparisonHolds(this, ret'.fid)
                  /\ \A n \in this.m_nFeatureIdx .. ret'.fid - 1 :
                         ~FIDComparisonHolds(this, n)
             ELSE \A n \in this.m_nFeatureIdx .. Len(file) - 1 :
                      ~FIDComparisonHolds(this, n)]_vars

\* The constraint's field is the FID pseudo-field.
IsOnFID(this_, constraint) ==
    constraint.iField = GetFieldCount(this_) + SPF_FID

\* The field of the constraint is read into the batches: a field that is
\* not ignored, or the identifier column when the file has one.
IsVisibleField(this_, constraint) ==
    IF IsOnFID(this_, constraint)
    THEN this_.layout.m_iFIDArrowColumn >= 0
    ELSE ~this_.layout.m_bIgnoredFields
         \/ this_.layout.m_anMapFieldIndexToArrayIndex[constraint.iField + 1]
                >= 0

\* The Arrow column of the constraint's field.
ArrowColumnOfField(this_, constraint) ==
    IF IsOnFID(this_, constraint) THEN this_.layout.m_iFIDArrowColumn
    ELSE this_.layout.m_anMapFieldIndexToArrowColumn[constraint.iField + 1][1]

\* C20: after ComputeConstraintsArrayIdx every constraint on a visible
\* field has its array index resolved to that field's column of the
\* batch, and only constraints on an ignored field or on the FID
\* pseudo-field of a file without identifier column are unresolved, in
\* every order of the constraints, with and without ignored fields.
C20_VisibleConstraintsResolved ==
    \A i \in 1..Len(this.m_asAttributeFilterConstraints) :
        LET constraint == this.m_asAttributeFilterConstraints[i]
        IN IF IsVisibleField(this, constraint)
           THEN /\ constraint.iArrayIdx >= 0
                /\ ArrowColumnOfArray(this, constraint.iArrayIdx)
                       = ArrowColumnOfField(this, constraint)
           ELSE constraint.iArrayIdx < 0

\* The cell the only constraint of the layer is resolved to, in the row at
\* zero-based position p of the file.
ConstrainedCell(this_, p) ==
    ColumnCell(this_, (p \div batchLen) + 1,
               this_.m_asAttributeFilterConstraints[1].iArrayIdx,
               p % batchLen)

\* What the claim says of the row at position p under the only
\* constraint: it is skipped, it passes, or (a non-null cell under a
\* comparison) the value decides.
NullRule(this_, p) ==
    LET op == this_.m_asAttributeFilterConstraints[1].nOperation
    IN IF ConstrainedCell(this_, p).isnull
       THEN (IF op = "SWQ_ISNULL" THEN "passes" ELSE "skipped")
       ELSE IF op = "SWQ_ISNULL" THEN "skipped"
       ELSE IF op = "SWQ_ISNOTNULL" THEN "passes"
       ELSE "by value"

\* C21: a row whose constrained cell is null is skipped under each of the
\* six comparison operators and under IS NOT NULL and passes under
\* IS NULL; a row whose constrained cell is not null is skipped under
\* IS NULL and passes under IS NOT NULL.  So the row GetNextRawFeature
\* returns is none the rule skips, and the rows it passed over are none
\* the rule lets pass.
C21_NullCellsUnderEachOperator ==
    [][(Len(this.m_asAttributeFilterConstraints) = 1
        /\ this.m_asAttributeFilterConstraints[1].iArrayIdx >= 0
        /\ IsRawFeatureResult(ret'))
          => /\ ret'.kind = "feature" => NullRule(this, ret'.fid) # "skipped"
             /\ \A p \in PassedOver(ret') : NullRule(this, p) # "passes"]_vars

\* A comparison has skipped a row with a null cell and returned the row
\* after it.
C21_Witness ==
    /\ Len(this.m_asAttributeFilterConstraints) = 1
    /\ this.m_asAttributeFilterConstraints[1].nOperation \in ComparisonOps
    /\ ret.kind = "feature" /\ ret.fid = 1
    /\ ConstrainedCell(this, 0).isnull

\* What Grow(n) leaves when it succeeds on a buffer of size s and capacity
\* c: the capacity max(s + n, min(2^31 - 1, 2c)), the size s, and the
\* first s bytes in the block the target array now points to.
GrownAsStated(old, new, n) ==
    LET s == old.m_nSize
        c == old.m_nCapacity
        doubled == IF c > MAX_SIZE_SINT32 \div 2 THEN MAX_SIZE_SINT32
                   ELSE 2 * c
    IN /\ new.m_nCapacity = Max(s + n, doubled)
       /\ new.m_nCapacity >= s + n
       /\ new.m_nCapacity <= MAX_SIZE_SINT32
       /\ new.m_nSize = s
       /\ new.m_pRawBuffer.nValid >= s
       /\ new.m_pRawBuffer.head = old.m_pRawBuffer.head
       /\ new.m_pRawBuffer.addr \notin new.aux_freed
       /\ new.m_psTargetArray.buffers2 = new.m_pRawBuffer.addr

RECURSIVE PointListOf(_)
PointListOf(type) ==
    IF type.id = "LIST" THEN PointListOf(type.value_type[1]) ELSE type

\* C23: for every point shape IsPointType accepts (a fixed-size list of
\* 2, 3 or 4 doubles, whatever the inner field's name), the resolved flags
\* satisfy 2 + hasZ + hasM = list size, so that the stride ReadGeometry
\* uses is the stride of the stored coordinates.
C23_StrideEqualsListSize ==
    (ret.kind = "IsValidGeometryEncoding" /\ ret.ok)
        => ReadGeometryDim(this.eGeomType)
               = PointListOf(this.fieldType).byte_width

\* The field CreateFieldFromSchema adds last, and the field it would add
\* for the same column with no gdal:schema definition at all: the type
\* and subtype inferred from the columnar schema.
LastAdded(this_) == this_.m_poFeatureDefn[Len(this_.m_poFeatureDefn)]

InferredField ==
    LastAdded(CreateFieldFromSchema(this, file[this.aux_mapped + 1],
                                    <<Len(this.m_poFeatureDefn)>>, {}))

\* The gdal:schema definition of the field mapped by the step.
OverrideOfField ==
    FindFieldDefn(this.oMapFieldNameToGDALSchemaFieldDefn,
                  file[this.aux_mapped + 1].name)

\* The step maps a field that has a gdal:schema definition and adds it.
MapsOverriddenField ==
    /\ this'.aux_mapped = this.aux_mapped + 1
    /\ file[this.aux_mapped + 1].type.id # "STRUCT"
    /\ OverrideOfField # <<>>
    /\ Len(this'.m_poFeatureDefn) = Len(this.m_poFeatureDefn) + 1

\* What the override carries is applied, and the type stays the inferred
\* one.
OverrideDetailsApplied(f, o) ==
    /\ f.type = InferredField.type
    /\ f.width = IF o.width > 0 THEN o.width ELSE InferredField.width
    /\ f.precision = IF o.precision > 0 THEN o.precision
                     ELSE InferredField.precision
    /\ f.alternativeName = o.alternativeName
    /\ f.comment = o.comment

\* C24 as stated: with an override for the field's name, MapArrowTypeToOGR
\* uses the override's subtype whenever its base type equals the inferred
\* type, keeps the inferred type and subtype when the base types differ,
\* and applies the override's width, precision, alternate name and comment
\* whenever the override carries them.
C24_OverrideSubtypeWhenSameType ==
    [][MapsOverriddenField
          => LET f == LastAdded(this')
                 o == OverrideOfField[1]
             IN /\ OverrideDetailsApplied(f, o)
                /\ f.subtype = IF o.type = InferredField.type
                               THEN o.subtype
                               ELSE InferredField.subtype]_vars

\* C24: with an override for the field's name, MapArrowTypeToOGR uses the
\* override's subtype when its base type equals the inferred type and the
\* columnar schema infers no subtype, keeps the inferred subtype when the
\* schema infers one, keeps the inferred type and subtype when the base
\* types differ, and applies the override's width, precision, alternate
\* name and comment whenever the override carries them.
C24_OverrideSubtypeWhenSameTypeAndNoneInferred ==
    [][MapsOverriddenField
          => LET f == LastAdded(this')
                 o == OverrideOfField[1]
             IN /\ OverrideDetailsApplied(f, o)
                /\ f.subtype = IF o.type = InferredField.type
                                  /\ InferredField.subtype = "OFSTNone"
                               THEN o.subtype
                               ELSE InferredField.subtype]_vars

\* A bool column, inferred as a boolean integer, was mapped under an
\* override that declares a plain integer with an alternate name and a
\* comment.
C24_Witness ==
    /\ this.aux_mapped = 1
    /\ file[1].type.id = "BOOL"
    /\ \E o \in this.oMapFieldNameToGDALSchemaFieldDefn :
          /\ o.name = file[1].name
          /\ o.type = "OFTInteger"
          /\ o.subtype = "OFSTNone"
          /\ o.alternativeName = "alias"
          /\ o.comment = "note"
          /\ LastAdded(this).subtype = "OFSTBoolean"
          /\ LastAdded(this).alternativeName = "alias"

\* The field of a schema at a column path, a sequence of one field, or none
\* when the path leaves the schema.
RECURSIVE FieldAtPath(_, _)
FieldAtPath(fields, path) ==
    IF path = <<>> \/ path[1] + 1 > Len(fields) THEN <<>>
    ELSE IF Len(path) = 1 THEN <<fields[path[1] + 1]>>
    ELSE FieldAtPath(fields[path[1] + 1].children, Tail(path))

\* The column paths of a schema that end at a field, every depth included.
RECURSIVE PathsOf(_, _)
PathsOf(fields, prefix) ==
    UNION {{Append(prefix, j - 1)}
           \cup PathsOf(fields[j].children, Append(prefix, j - 1)) :
              j \in 1..Len(fields)}

\* Lexicographic order of column paths: the order of a depth-first visit.
RECURSIVE PathBefore(_, _)
PathBefore(p, q) ==
    IF p = <<>> THEN q # <<>>
    ELSE IF q = <<>> THEN FALSE
    ELSE IF p[1] # q[1] THEN p[1] < q[1]
    ELSE PathBefore(Tail(p), Tail(q))

\* The fields of the model's schemas that are kept: plain columns at any
\* depth and top-level dictionaries of strings; structs are taken apart,
\* other dictionaries and unhandled types dropped.
IsKeptField(field, path) ==
    \/ field.type.id \in {"INT32", "INT16", "STRING", "DOUBLE"}
    \/ /\ field.type.id = "DICTIONARY"
       /\ Len(path) = 1
       /\ field.type.value_type[1].id = "STRING"

\* C25: after any sequence of CreateFieldFromSchema calls there are as
\* many recorded column paths as fields, the path at index i leads to the
\* column field i was made from, through as many structs as its length less
\* one, fields come in depth-first encounter order, and every kept column
\* visited so far has its field while dropped ones have neither field nor
\* path.
C25_PathsFollowFields ==
    LET paths == this.m_anMapFieldIndexToArrowColumn
        fields == this.m_poFeatureDefn
        visited == {p \in PathsOf(file, <<>>) : p[1] < this.aux_mapped}
    IN /\ Len(paths) = Len(fields)
       /\ \A i \in 1..Len(paths) :
             /\ FieldAtPath(file, paths[i]) # <<>>
             /\ FieldAtPath(file, paths[i])[1].name = fields[i].name
             /\ \A k \in 1..(Len(paths[i]) - 1) :
                   FieldAtPath(file, SubSeq(paths[i], 1, k))[1].type.id
                       = "STRUCT"
       /\ \A i, j \in 1..Len(paths) : i < j => PathBefore(paths[i], paths[j])
       /\ {paths[i] : i \in 1..Len(paths)}
              = {p \in visited : IsKeptField(FieldAtPath(file, p)[1], p)}

\* A struct with a struct inside was mapped after a dropped column: its
\* fields have paths of lengths two and three, the dropped members none.
C25_Witness ==
    /\ this.aux_mapped = 2
    /\ file[1].name = "d"
    /\ file[2].name = "s"
    /\ this.m_anMapFieldIndexToArrowColumn
           = <<<<1, 0>>, <<1, 2, 0>>, <<1, 2, 2>>, <<1, 3>>>>

\* C26: for a top-level dictionary column with string values and an index
\* of any of the eight integer types, the field CreateFieldFromSchema
\* creates has type 32-bit or 64-bit integer and carries the domain name,
\* and its type is the field type of the coded-value domain that
\* BuildDomainFromBatch builds for the column.
C26_FieldTypeIsDomainType ==
    (/\ this.aux_mapped = 1
     /\ file[1].type.value_type[1].id = "STRING"
     /\ IsIntegerArrowType(file[1].type.key_type[1].id))
        => /\ Len(this.m_poFeatureDefn) = 1
           /\ this.m_poFeatureDefn[1].domain
           /\ this.m_poFeatureDefn[1].type \in {"OFTInteger", "OFTInteger64"}
           /\ ret # Void
                 => ret.domain.eType = this.m_poFeatureDefn[1].type

\* GetExtent(iGeomField, bForce) reaches its row-by-row pass: the index is
\* valid, no extent is cached or given by the metadata, the pass may run,
\* the column is read and its encoding is WKB or GeoArrow multipolygon.
RunsFullPass(this_, iGeomField, bForce) ==
    /\ iGeomField >= 0
    /\ iGeomField < GetGeomFieldCount(this_)
    /\ ~FastGetExtent(this_, iGeomField).ok
    /\ bForce \/ this_.layout.CanRunNonForcedGetExtent
    /\ GeomColumn(this_, iGeomField) >= 0
    /\ this_.layout.m_aeGeomEncoding[iGeomField + 1]
           \in {"WKB", "GEOARROW_MULTIPOLYGON"}

\* GetExtent(iGeomField, bForce) is rejected for its index or answered
\* from the cache or the metadata.
AnsweredAtOnce(this_, iGeomField) ==
    IF iGeomField < 0 \/ iGeomField >= GetGeomFieldCount(this_) THEN TRUE
    ELSE FastGetExtent(this_, iGeomField).ok

\* The step is GetExtent(iGeomField, bForce).
IsGetExtentStep(iGeomField, bForce) ==
    /\ ret'.kind = "extent"
    /\ GetExtentIsLocal(this, iGeomField, bForce)
    /\ ret' = GetExtent(Begin(this), iGeomField, bForce).ret
    /\ this' = GetExtent(Begin(this), iGeomField, bForce).this

\* The cursor is rewound: with no filter installed the next
\* GetNextRawFeature returns the first row of the dataset.
CursorRewound(this_) ==
    /\ ~this_.m_bEOF
    /\ this_.m_nFeatureIdx = 0
    /\ this_.m_nIdxInBatch = 0
    /\ (this_.m_poFilterGeom = 0 /\ this_.m_poAttrQuery = NullQuery
        /\ Len(file) > 0)
          => LET r == GetNextRawFeature(Begin(this_)).ret
             IN r.kind = "feature" /\ r.batch = 1 /\ r.row = 0

\* Cursor position, current batch and EOF flag are those of before.
CursorUntouched ==
    /\ this'.m_bEOF = this.m_bEOF
    /\ this'.m_nFeatureIdx = this.m_nFeatureIdx
    /\ this'.m_nIdxInBatch = this.m_nIdxInBatch
    /\ this'.m_iRecordBatch = this.m_iRecordBatch
    /\ this'.m_poBatch = this.m_poBatch
    /\ this'.m_poBatchColumns = this.m_poBatchColumns

\* C27 as stated: a GetExtent call that runs the full pass leaves the
\* cursor rewound whatever its position before (EOF flag cleared, row
\* counter and in-batch index zero, the next GetNextRawFeature returning
\* the first row); a call answered from the cache or the metadata, or
\* rejected for its geometry field index, leaves cursor position, current
\* batch and EOF flag unchanged.
C27_FullPassRewinds ==
    [][\A iGeomField \in 0..1 : \A bForce \in BOOLEAN :
          IsGetExtentStep(iGeomField, bForce)
              => /\ RunsFullPass(this, iGeomField, bForce)
                    => CursorRewound(this')
                 /\ AnsweredAtOnce(this, iGeomField) => CursorUntouched]_vars

\* C27: a GetExtent call that runs the full pass over a dataset of at
\* least one batch leaves the cursor rewound whatever its position before;
\* over a dataset without batches it fails with the row counter and the
\* in-batch index zero and the EOF flag set; a call answered from the
\* cache or the metadata, or rejected for its geometry field index, leaves
\* cursor position, current batch and EOF flag unchanged.
C27_FullPassRewindsUnlessNoBatch ==
    [][\A iGeomField \in 0..1 : \A bForce \in BOOLEAN :
          IsGetExtentStep(iGeomField, bForce)
              => /\ (RunsFullPass(this, iGeomField, bForce) /\ Len(file) > 0)
                    => CursorRewound(this')
                 /\ (RunsFullPass(this, iGeomField, bForce) /\ Len(file) = 0)
                    => /\ this'.m_bEOF
                       /\ this'.m_nFeatureIdx = 0
                       /\ this'.m_nIdxInBatch = 0
                       /\ ret'.err = "OGRERR_FAILURE"
                 /\ AnsweredAtOnce(this, iGeomField) => CursorUntouched]_vars

\* A full pass ran over a dataset of two batches, pulled both and met the
\* end, and cached the extent; the cursor reads from the start again.
C27_Witness ==
    /\ ret.kind = "extent"
    /\ ret.err = "OGRERR_NONE"
    /\ NumBatches = 2
    /\ this.aux_pulls = 3
    /\ ~this.m_bEOF
    /\ this.m_nFeatureIdx = 0
    /\ this.m_poBatch = 0

\* The step is SetSpatialFilter(iGeomField, poGeomIn) with a valid index.
IsSetSpatialFilterStep(iGeomField, poGeomIn) ==
    /\ ret'.kind = "SetSpatialFilter"
    /\ iGeomField < GetGeomFieldCount(this)
    /\ this' = SetSpatialFilter(Begin(this), iGeomField, poGeomIn)

\* The extent the layer knows from its cache or else from its metadata, if
\* any, and a filter geometry that misses it.
KnownExtents(this_, iGeomField) ==
    LET meta == this_.layout.m_oMapGeometryColumns[iGeomField + 1]
    IN IF this_.m_oMapExtents[iGeomField + 1].has
       THEN {this_.m_oMapExtents[iGeomField + 1].env}
       ELSE IF this_.layout.USE_BBOX /\ GetExtentFromMetadata(meta).ok
       THEN {GetExtentFromMetadata(meta).env}
       ELSE {}

MissesKnownExtent(this_, iGeomField, poGeomIn) ==
    /\ poGeomIn # 0
    /\ \E e \in KnownExtents(this_, iGeomField) :
          ~Intersects(FilterEnvelopeOf(poGeomIn), e)

\* C28: after SetSpatialFilter installs a filter whose envelope misses the
\* extent known from the cache or the metadata, every GetNextRawFeature
\* returns no feature, pulls no batch and leaves the EOF flag alone; a
\* later SetSpatialFilter with no geometry, or with one that intersects the
\* known extent, makes iteration run from the first row again; with no
\* known extent the filter never suppresses iteration.
C28_DisjointFilterSuppressesIteration ==
    [][/\ \A iGeomField \in 0..1 : \A poGeomIn \in 0..2 :
             IsSetSpatialFilterStep(iGeomField, poGeomIn)
                 => /\ this'.m_bSpatialFilterIntersectsLayerExtent
                          = ~MissesKnownExtent(this, iGeomField, poGeomIn)
                    /\ (/\ ~this.m_bSpatialFilterIntersectsLayerExtent
                        /\ ~MissesKnownExtent(this, iGeomField, poGeomIn))
                          => /\ ~this'.m_bEOF
                             /\ this'.m_nFeatureIdx = 0
                             /\ (poGeomIn = 0 /\ Len(file) > 0)
                                   => GetNextRawFeature(Begin(this')).ret.kind
                                          = "feature"
       /\ (ret'.kind \notin {"SetSpatialFilter", "extent"}
           /\ ~this.m_bSpatialFilterIntersectsLayerExtent)
             => /\ ret' = NoFeature
                /\ this'.aux_pulls = 0
                /\ this'.m_bEOF = this.m_bEOF
                /\ ~this'.m_bSpatialFilterIntersectsLayerExtent
       /\ (ret'.kind = "extent"
           /\ ~this.m_bSpatialFilterIntersectsLayerExtent)
             => ~this'.m_bSpatialFilterIntersectsLayerExtent]_vars

\* A GetNextRawFeature call on a dataset of two rows was suppressed by a
\* filter that misses the extent a full pass had cached.
C28_Witness ==
    /\ ~this.m_bSpatialFilterIntersectsLayerExtent
    /\ this.m_oMapExtents[1].has
    /\ this.m_poFilterGeom = 1
    /\ ret = NoFeature
    /\ Len(file) = 2
    /\ ~this.m_bEOF

\* C29: whenever GetNextRawFeature or GetExtent reads a row, the in-batch
\* row index is strictly less than the row count of the current batch, for
\* every sequence of batches the source may deliver, batches of zero rows
\* included.
C29_ReadsInsideBatch ==
    \A r \in this.aux_reads : r[1] < r[2]

\* The rows consumed since the last rewind: every row of the batches before
\* the current one and the rows of the current batch below the in-batch
\* index.
RowsConsumed(this_) ==
    IF this_.m_poBatch = 0 THEN 0
    ELSE RowsBefore(this_.m_poBatch) + this_.m_nIdxInBatch

\* C30: after any interleaving of GetNextRawFeature and GetNextArrowArray
\* calls since the last rewind, the global row counter equals the number
\* of rows consumed so far, so that the base sequential identifier of an
\* exported batch is the global position of its first row and no row is
\* delivered twice.
C30_RowCounterIsRowsConsumed ==
    this.m_nFeatureIdx = RowsConsumed(this)

====
